---- MODULE Spec2Model ----
(***************************************************************************)
(* Verification model of the Blender batch submitter (desktop_app.py,     *)
(* blend_parser.py, blend_inspector.py).                                   *)
(*                                                                         *)
(* Part 1: InspectorThread, the extraction orchestrator: one background    *)
(* thread walking a list of files, binary parse first, host process as     *)
(* fallback, with a cooperative stop flag.                                 *)
(***************************************************************************)
EXTENDS Integers, Sequences, FiniteSets, TLC

\* ------------------------------------------------------------------------
\* Bounds of the model
\* ------------------------------------------------------------------------

\* Number of files handed to one InspectorThread (self.files).
NumFiles == 3

\* Longest stdout, in lines, the host process prints in the model.
MaxLines == 2

FileIds == 1..NumFiles

\* ------------------------------------------------------------------------
\* Host process output: a line is a sequence of tokens; the marker is the
\* one-token prefix "BLEND_INSPECTOR_JSON:".
\* ------------------------------------------------------------------------

Marker == <<"BLEND_INSPECTOR_JSON:">>

\* Lines the host process may print: marker lines with good, empty, broken or
\* non-object JSON, plain noise, and an indented marker line (which does not
\* START with the marker).
StdoutLines ==
    { Marker \o <<"{A}">>,
      Marker \o <<"{B}">>,
      Marker \o <<"{}">>,
      Marker \o <<"garbage">>,
      Marker \o <<"[1]">>,
      <<"Blender 4.2.0">>,
      <<" ">> \o Marker \o <<"{B}">> }

RECURSIVE SeqsUpTo(_, _)
SeqsUpTo(S, n) ==
    IF n = 0 THEN { <<>> }
    ELSE LET shorter == SeqsUpTo(S, n - 1)
         IN  shorter \cup { Append(s, x) : s \in { t \in shorter : Len(t) = n - 1 }, x \in S }

Stdouts == SeqsUpTo(StdoutLines, MaxLines)

\* line.startswith(prefix)
startswith(line, prefix) ==
    /\ Len(line) >= Len(prefix)
    /\ SubSeq(line, 1, Len(prefix)) = prefix

\* line[len(prefix):]
StripPrefix(line, prefix) == SubSeq(line, Len(prefix) + 1, Len(line))

\* json.loads: the texts that parse, and the value each parses to.  Anything
\* else (no text, trailing text, "garbage") raises JSONDecodeError.
JsonTexts == { "{A}", "{B}", "{}", "[1]" }

JsonValid(text) == Len(text) = 1 /\ text[1] \in JsonTexts

json_loads(text) ==
    CASE text[1] = "{A}" -> [type |-> "dict", truthy |-> TRUE,  tag |-> "A"]
      [] text[1] = "{B}" -> [type |-> "dict", truthy |-> TRUE,  tag |-> "B"]
      [] text[1] = "{}"  -> [type |-> "dict", truthy |-> FALSE, tag |-> "empty"]
      [] text[1] = "[1]" -> [type |-> "list", truthy |-> TRUE,  tag |-> "list"]

\* What blend_parser.parse_blend returns on success: always a dict with the
\* keys file, job_name and scenes.
ParsedMetadata == [type |-> "dict", truthy |-> TRUE, tag |-> "parsed"]

\* The payloads of file_inspected(filepath, dict).
MetadataRecord(v)   == [kind |-> "metadata", val |-> v.tag]
ErrNotFound         == [kind |-> "error", val |-> "Blender not found"]
ErrTimeout          == [kind |-> "error", val |-> "Timeout (120s)"]
ErrNoMetadata       == [kind |-> "error", val |-> "No metadata found"]
ErrException        == [kind |-> "error", val |-> "str(e)"]

\* Index of the first line of out, from k on, that starts with the marker;
\* 0 when there is none ("for line in ...: if line.startswith(...): ... break").
RECURSIVE FirstMarkerLine_AnyMention(_, _)
FirstMarkerLine_AnyMention(out, k) ==
    IF k > Len(out) THEN 0
    ELSE IF \E j \in 1..Len(out[k]) : SubSeq(out[k], j, j) = Marker THEN k
    ELSE FirstMarkerLine_AnyMention(out, k + 1)

RECURSIVE FirstMarkerLine(_, _)
FirstMarkerLine(out, k) ==
    IF k > Len(out) THEN 0
    ELSE IF startswith(out[k], Marker) THEN k
    ELSE FirstMarkerLine(out, k + 1)

\* The body of the try block after subprocess.run returned: the outcome
\* emitted for a process that exited with stdout out.
FallbackOutcome(out) ==
    LET k == FirstMarkerLine(out, 1)
    IN  IF k = 0 THEN ErrNoMetadata                      \* metadata stays None
        ELSE LET json_str == StripPrefix(out[k], Marker)
             IN  IF ~JsonValid(json_str) THEN ErrException   \* json.loads raises
                 ELSE LET metadata == json_loads(json_str)
                      IN  IF ~metadata.truthy THEN ErrNoMetadata
                          ELSE IF metadata.type # "dict"
                               THEN ErrException         \* emit(str, dict) raises TypeError
                               ELSE MetadataRecord(metadata)

\* ------------------------------------------------------------------------
\* State of one InspectorThread and of the environment it observes
\* ------------------------------------------------------------------------
VARIABLES
    available,        \* blend_parser.is_available(), fixed for the process
    ipc,              \* position of run(): "loop", "binary", "fallback",
                      \* "running", "scan", "done"
    idx,              \* index in self.files of the current file
    _stop,            \* self._stop
    blender_missing,  \* local of run()
    procOut,          \* result.stdout of the process that just exited
    emitted,          \* file_inspected emissions so far, in order
    all_done,         \* number of all_done emissions
    started,          \* files whose loop iteration passed the stop check
    binRes,           \* per file: "none", "ok", "raised", "unavailable"
    attempts,         \* per file: number of subprocess.run calls
    procRes           \* per file: how subprocess.run ended: "none", "notfound",
                      \* "raised", "timeout", "marker", "nomarker"

inspVars == <<available, ipc, idx, _stop, blender_missing, procOut, emitted,
              all_done, started, binRes, attempts, procRes>>

\* ------------------------------------------------------------------------
\* State of the main window: one scanned file, its BlendFileData, the render
\* settings tab, and the submission of that file
\* ------------------------------------------------------------------------
VARIABLES
    app,               \* "running", or "aborted" after an exception left a slot
    blend,             \* the metadata every inspection of the file reports
    has_file_data,     \* filepath in MainWindow.file_data
    file_data,         \* MainWindow.file_data[filepath], a BlendFileData
    current_filepath,  \* MainWindow.current_filepath: "" or "F"
    render_tab,        \* the RenderSettingsTab: its widgets and attributes
    submit_pending,    \* the submit button is disabled: a SubmitThread runs
    job_fd,            \* the BlendFileData submit_blend_job was called with
    plan_status,       \* "none", "blocked", "pending" or the thread's outcome
    job_blocks         \* job.blocks of the job that submit_blend_job built

uiVars == <<app, blend, has_file_data, file_data, current_filepath, render_tab,
            submit_pending, job_fd, plan_status, job_blocks>>

\* ------------------------------------------------------------------------
\* State of a SubmitThread and of the slots its signals run
\* ------------------------------------------------------------------------
VARIABLES
    jobs,              \* SubmitThread.jobs
    spc,               \* position of run(): "idle", "loop", "write", "done"
    sidx,              \* index in self.jobs of the current job
    job_id,            \* local job_id of run() while the record is written
    send_results,      \* what submit_blend_job did in each iteration so far
    job_submitted,     \* job_submitted emissions so far, in order
    sub_all_done,      \* number of all_done emissions of the SubmitThread
    job_id_files,      \* indices of the jobs whose job-id record was written
    sig_queue,         \* emitted signals whose slot has not run yet
    _submitted_count,  \* MainWindow._submitted_count
    submit_btn         \* submission_panel.submit_btn.isEnabled()

subVars == <<jobs, spc, sidx, job_id, send_results, job_submitted, sub_all_done,
             job_id_files, sig_queue, _submitted_count, submit_btn>>

\* ------------------------------------------------------------------------
\* State of the Backend and of the two API calls that run on it
\* ------------------------------------------------------------------------
VARIABLES
    status,            \* Backend.status
    cancel_flag,       \* Backend.cancel_flag.is_set()
    bpc,               \* position of submit_jobs: "idle", "clear", "script",
                       \* "loop", "job", "end", "returned"
    files,             \* number of entries of config['files']
    bidx,              \* index of the loop of submit_jobs
    results,           \* local results of submit_jobs
    cpc,               \* position of cancel_submission: "idle", "status"
    cancel_requested,  \* cancel_submission was called during this run
    started_after      \* files whose job began after such a request

beVars == <<status, cancel_flag, bpc, files, bidx, results, cpc,
            cancel_requested, started_after>>

\* ------------------------------------------------------------------------
\* Two calls of the planner, and one call of resolve_output_path
\* ------------------------------------------------------------------------
VARIABLES
    plan_fd,           \* the BlendFileData both calls are given
    plan_runs,         \* job.blocks of each call so far, in order
    output_raw,        \* parse_scene: the path read from the scene
    base_dir,          \* parse_scene: blend_dir, as its components
    resolved           \* what the call returned, or NotCalled

fnVars == <<plan_fd, plan_runs, output_raw, base_dir, resolved>>

\* ------------------------------------------------------------------------
\* State of parse_blend on one file, and of the inspect controls
\* ------------------------------------------------------------------------
VARIABLES
    scene_blocks,      \* blend.find_blocks_from_code(b'SC') of the file
    wm_chain,          \* what the window-manager chain of the file leads to
    parsed_scenes,     \* local scenes of parse_blend
    metadata,          \* what parse_blend returned
    ppc,               \* "idle", "loop", "returned", "emitted"
    inspect_selected_btn,  \* file_panel.inspect_selected_btn.isEnabled()
    inspect_all_btn,       \* file_panel.inspect_all_btn.isEnabled()
    checked,           \* the files whose row is checked
    threads,           \* the InspectorThreads started so far: their files,
                       \* the number of files done, and whether run() ended
    done_queue         \* all_done emissions whose slot has not run yet

prsVars == <<scene_blocks, wm_chain, parsed_scenes, metadata, ppc>>

ctlVars == <<inspect_selected_btn, inspect_all_btn, checked, threads, done_queue>>

extVars == <<prsVars, ctlVars>>

auxVars == <<subVars, beVars, fnVars, extVars>>

vars == <<inspVars, uiVars, auxVars>>

\* ------------------------------------------------------------------------
\* Data of the main window
\* ------------------------------------------------------------------------

\* The scene-combo entry that stands for every scene of the file (the source
\* spells it with a leading lightning sign) and the entry of an empty file.
ALL_SCENES == "All Scenes"
NO_SCENES  == "(no scenes detected)"

\* The entry of the layer list shown while ALL_SCENES is selected.
ALL_LAYERS_NOTE == "(All scenes & layers will be rendered)"

\* Ranges of the spin boxes (QSpinBox.setRange).
SpinFrameMin == 0
SpinFrameMax == 999999
SpinStepMin  == 1
SpinStepMax  == 999
SpinFptMin   == 1
SpinFptMax   == 9999

\* Items of format_combo, in order.
FormatItems == <<"OPEN_EXR", "OPEN_EXR_MULTILAYER", "PNG", "JPEG",
                 "TIFF", "BMP", "HDR", "TARGA">>

SeqToSet(q) == { q[i] : i \in 1..Len(q) }

Max(a, b) == IF a >= b THEN a ELSE b
Min(a, b) == IF a <= b THEN a ELSE b

\* A QLabel that still shows "-".
Dash == [shown |-> FALSE, n |-> 0, all |-> FALSE]

\* BlendFileData(): the dataclass defaults.
DefaultFileData ==
    [ inspected |-> FALSE, error |-> "", scenes |-> <<>>,
      selected_scene |-> "", selected_layers |-> <<>>,
      frame_start |-> 1, frame_end |-> 250, frame_step |-> 1,
      frames_per_task |-> 3,
      output_path |-> "", output_format |-> "OPEN_EXR",
      user_overrides |-> {}, render_layers_parallel |-> FALSE ]

\* RenderSettingsTab after __init__: _current_file_data is None, the combo
\* and the layer list are empty, the spin boxes hold their start values.
InitialTab ==
    [ has_current |-> FALSE,
      scene_items |-> <<>>, scene_combo |-> "",
      layers_list |-> <<>>,
      parallel_layers_check |-> FALSE,
      frame_start_spin |-> 1, frame_end_spin |-> 250,
      frame_step_spin |-> 1, fpt_spin |-> 3,
      output_edit |-> "", format_combo |-> "OPEN_EXR",
      scenes_data |-> <<>>,
      total_frames_label |-> Dash, total_tasks_label |-> Dash ]

\* The main window with nothing inspected, selected or submitted.
UiIdle ==
    /\ app = "running"
    /\ blend = [scenes |-> <<>>]
    /\ has_file_data = FALSE
    /\ file_data = DefaultFileData
    /\ current_filepath = ""
    /\ render_tab = InitialTab
    /\ submit_pending = FALSE
    /\ job_fd = DefaultFileData
    /\ plan_status = "none"
    /\ job_blocks = <<>>

\* No SubmitThread has been made.
SubIdle ==
    /\ jobs = <<>>
    /\ spc = "idle"
    /\ sidx = 1
    /\ job_id = ""
    /\ send_results = <<>>
    /\ job_submitted = <<>>
    /\ sub_all_done = 0
    /\ job_id_files = {}
    /\ sig_queue = <<>>
    /\ _submitted_count = 0
    /\ submit_btn = TRUE

\* Backend.__init__, with no API call running.
BeIdle ==
    /\ status = "idle"
    /\ cancel_flag = FALSE
    /\ bpc = "idle"
    /\ files = 0
    /\ bidx = 1
    /\ results = <<>>
    /\ cpc = "idle"
    /\ cancel_requested = FALSE
    /\ started_after = {}

\* resolve_output_path has not returned yet.
NotCalled == <<"not called">>

\* Neither function has been called.
FnIdle ==
    /\ plan_fd = DefaultFileData
    /\ plan_runs = <<>>
    /\ output_raw = <<>>
    /\ base_dir = <<>>
    /\ resolved = NotCalled

\* parse_blend has not been called.
PrsIdle ==
    /\ scene_blocks = <<>>
    /\ wm_chain = [kind |-> "no_wm"]
    /\ parsed_scenes = <<>>
    /\ metadata = [scenes |-> <<>>]
    /\ ppc = "idle"

\* The file panel before a scan: both buttons enabled, no row, no
\* InspectorThread made.
CtlIdle ==
    /\ inspect_selected_btn = TRUE
    /\ inspect_all_btn = TRUE
    /\ checked = {}
    /\ threads = <<>>
    /\ done_queue = 0

ExtIdle == PrsIdle /\ CtlIdle

AuxIdle == SubIdle /\ BeIdle /\ FnIdle /\ ExtIdle

\* InspectorThread.__init__ followed by start()
InspInit ==
    /\ available \in BOOLEAN
    /\ ipc = "loop"
    /\ idx = 1
    /\ _stop = FALSE
    /\ blender_missing = FALSE
    /\ procOut = <<>>
    /\ emitted = <<>>
    /\ all_done = 0
    /\ started = {}
    /\ binRes = [f \in FileIds |-> "none"]
    /\ attempts = [f \in FileIds |-> 0]
    /\ procRes = [f \in FileIds |-> "none"]

\* self.file_inspected.emit(filepath, payload)
Emit_Prepend(em, f, payload) == <<[file |-> f] @@ payload>> \o em

Emit(em, f, payload) == Append(em, [file |-> f] @@ payload)

\* InspectorThread.stop(), called from the GUI thread (closeEvent) while the
\* thread is running.
stop ==
    /\ ipc # "done"
    /\ ~_stop
    /\ _stop' = TRUE
    /\ UNCHANGED <<available, ipc, idx, blender_missing, procOut, emitted,
                   all_done, started, binRes, attempts, procRes, uiVars, auxVars>>

\* "for filepath in self.files: if self._stop: break" -- next file, flag clear.
StartFile_IgnoreStop ==
    /\ ipc = "loop"
    /\ idx <= NumFiles
    /\ ipc' = "binary"
    /\ started' = started \cup {idx}
    /\ UNCHANGED <<available, idx, _stop, blender_missing, procOut, emitted,
                   all_done, binRes, attempts, procRes, uiVars, auxVars>>

StartFile ==
    /\ ipc = "loop"
    /\ idx <= NumFiles
    /\ ~_stop
    /\ ipc' = "binary"
    /\ started' = started \cup {idx}
    /\ UNCHANGED <<available, idx, _stop, blender_missing, procOut, emitted,
                   all_done, binRes, attempts, procRes, uiVars, auxVars>>

\* The loop ends, by break or by exhaustion, and all_done is emitted.
FinishBatch ==
    /\ ipc = "loop"
    /\ idx > NumFiles \/ _stop
    /\ ipc' = "done"
    /\ all_done' = all_done + 1
    /\ UNCHANGED <<available, idx, _stop, blender_missing, procOut, emitted,
                   started, binRes, attempts, procRes, uiVars, auxVars>>

\* blend_parser.is_available() is False: straight to the fallback.
BinaryUnavailable ==
    /\ ipc = "binary"
    /\ ~available
    /\ binRes' = [binRes EXCEPT ![idx] = "unavailable"]
    /\ ipc' = "fallback"
    /\ UNCHANGED <<available, idx, _stop, blender_missing, procOut, emitted,
                   all_done, started, attempts, procRes, uiVars, auxVars>>

\* parse_blend returned: emit the metadata and continue with the next file.
BinaryParseOk_FallThrough ==
    /\ ipc = "binary"
    /\ available
    /\ binRes' = [binRes EXCEPT ![idx] = "ok"]
    /\ emitted' = Emit(emitted, idx, MetadataRecord(ParsedMetadata))
    /\ ipc' = "fallback"
    /\ UNCHANGED <<available, idx, _stop, blender_missing, procOut, all_done,
                   started, attempts, procRes, uiVars, auxVars>>

BinaryParseOk ==
    /\ ipc = "binary"
    /\ available
    /\ binRes' = [binRes EXCEPT ![idx] = "ok"]
    /\ emitted' = Emit(emitted, idx, MetadataRecord(ParsedMetadata))
    /\ idx' = idx + 1
    /\ ipc' = "loop"
    /\ UNCHANGED <<available, _stop, blender_missing, procOut, all_done,
                   started, attempts, procRes, uiVars, auxVars>>

\* parse_blend raised: the exception is printed and the fallback is tried.
BinaryParseRaises ==
    /\ ipc = "binary"
    /\ available
    /\ binRes' = [binRes EXCEPT ![idx] = "raised"]
    /\ ipc' = "fallback"
    /\ UNCHANGED <<available, idx, _stop, blender_missing, procOut, emitted,
                   all_done, started, attempts, procRes, uiVars, auxVars>>

\* "if blender_missing: emit(...); continue"
SkipMissingBlender ==
    /\ ipc = "fallback"
    /\ blender_missing
    /\ emitted' = Emit(emitted, idx, ErrNotFound)
    /\ idx' = idx + 1
    /\ ipc' = "loop"
    /\ UNCHANGED <<available, _stop, blender_missing, procOut, all_done,
                   started, binRes, attempts, procRes, uiVars, auxVars>>

\* subprocess.run raises FileNotFoundError: the executable does not exist.
LaunchNotFound_Forget ==
    /\ ipc = "fallback"
    /\ ~blender_missing
    /\ attempts' = [attempts EXCEPT ![idx] = @ + 1]
    /\ emitted' = Emit(emitted, idx, ErrNotFound)
    /\ idx' = idx + 1
    /\ ipc' = "loop"
    /\ procRes' = [procRes EXCEPT ![idx] = "notfound"]
    /\ UNCHANGED <<available, _stop, blender_missing, procOut, all_done,
                   started, binRes, uiVars, auxVars>>

LaunchNotFound ==
    /\ ipc = "fallback"
    /\ ~blender_missing
    /\ attempts' = [attempts EXCEPT ![idx] = @ + 1]
    /\ blender_missing' = TRUE
    /\ emitted' = Emit(emitted, idx, ErrNotFound)
    /\ idx' = idx + 1
    /\ ipc' = "loop"
    /\ procRes' = [procRes EXCEPT ![idx] = "notfound"]
    /\ UNCHANGED <<available, _stop, procOut, all_done, started, binRes, uiVars, auxVars>>

\* subprocess.run raises something else at launch (PermissionError, ...).
LaunchRaises ==
    /\ ipc = "fallback"
    /\ ~blender_missing
    /\ attempts' = [attempts EXCEPT ![idx] = @ + 1]
    /\ emitted' = Emit(emitted, idx, ErrException)
    /\ idx' = idx + 1
    /\ ipc' = "loop"
    /\ procRes' = [procRes EXCEPT ![idx] = "raised"]
    /\ UNCHANGED <<available, _stop, blender_missing, procOut, all_done,
                   started, binRes, uiVars, auxVars>>

\* subprocess.run started the host process and waits for it.
LaunchOk ==
    /\ ipc = "fallback"
    /\ ~blender_missing
    /\ attempts' = [attempts EXCEPT ![idx] = @ + 1]
    /\ ipc' = "running"
    /\ UNCHANGED <<available, idx, _stop, blender_missing, procOut, emitted,
                   all_done, started, binRes, procRes, uiVars, auxVars>>

\* The process is still running after 120 s: subprocess.TimeoutExpired.
ProcessTimeout_Retry ==
    /\ ipc = "running"
    /\ IF attempts[idx] < 2
       THEN /\ ipc' = "fallback"
            /\ UNCHANGED <<emitted, idx>>
       ELSE /\ emitted' = Emit(emitted, idx, ErrTimeout)
            /\ idx' = idx + 1
            /\ ipc' = "loop"
    /\ procRes' = [procRes EXCEPT ![idx] = "timeout"]
    /\ UNCHANGED <<available, _stop, blender_missing, procOut, all_done,
                   started, binRes, attempts, uiVars, auxVars>>

ProcessTimeout_Uncaught ==
    /\ ipc = "running"
    /\ ipc' = "done"
    /\ UNCHANGED <<available, idx, _stop, blender_missing, procOut, emitted,
                   all_done, started, binRes, attempts, procRes, uiVars, auxVars>>

ProcessTimeout ==
    /\ ipc = "running"
    /\ emitted' = Emit(emitted, idx, ErrTimeout)
    /\ idx' = idx + 1
    /\ ipc' = "loop"
    /\ procRes' = [procRes EXCEPT ![idx] = "timeout"]
    /\ UNCHANGED <<available, _stop, blender_missing, procOut, all_done,
                   started, binRes, attempts, uiVars, auxVars>>

\* The process exited within the timeout, having printed some stdout.
ProcessExits ==
    /\ ipc = "running"
    /\ \E out \in Stdouts :
          /\ procOut' = out
          /\ procRes' = [procRes EXCEPT ![idx] =
                            IF \E k \in 1..Len(out) : startswith(out[k], Marker)
                            THEN "marker" ELSE "nomarker"]
    /\ ipc' = "scan"
    /\ UNCHANGED <<available, idx, _stop, blender_missing, emitted, all_done,
                   started, binRes, attempts, uiVars, auxVars>>

\* The scan of result.stdout and the emission that follows it.
ScanStdout ==
    /\ ipc = "scan"
    /\ emitted' = Emit(emitted, idx, FallbackOutcome(procOut))
    /\ procOut' = <<>>
    /\ idx' = idx + 1
    /\ ipc' = "loop"
    /\ UNCHANGED <<available, _stop, blender_missing, all_done, started,
                   binRes, attempts, procRes, uiVars, auxVars>>

\* One step of InspectorThread.run
RunStep ==
    \/ StartFile
    \/ FinishBatch
    \/ BinaryUnavailable
    \/ BinaryParseOk
    \/ BinaryParseRaises
    \/ SkipMissingBlender
    \/ LaunchNotFound
    \/ LaunchRaises
    \/ LaunchOk
    \/ ProcessTimeout
    \/ ProcessExits
    \/ ScanStdout

InspNext == stop \/ RunStep

\* No inspection is running.
InspIdle == InspInit /\ available = TRUE

\* The application after start-up, with a batch handed to an InspectorThread.
InspectInit == InspInit /\ UiIdle /\ AuxIdle

SpecInspect == InspectInit /\ [][InspNext]_vars

\* ------------------------------------------------------------------------
\* Properties of InspectorThread.run
\* ------------------------------------------------------------------------

\* The outcomes emitted so far for file f, in emission order.
OutcomesOf(f) == SelectSeq(emitted, LAMBDA r : r.file = f)

InFile == ipc \in {"binary", "fallback", "running", "scan"}

\* C1: once a launch of the host process failed because the executable was
\* not found, no later file of the batch launches it: a later file that
\* reaches the fallback is reported host-not-found with no launch attempt.
C1_NoLaunchAfterNotFound ==
    \A f \in FileIds : \A g \in FileIds :
        (f < g /\ procRes[f] = "notfound") =>
            /\ attempts[g] = 0
            /\ procRes[g] = "none"
            /\ (ipc = "fallback" /\ idx = g) => ~ENABLED LaunchOk
            /\ (binRes[g] \in {"raised", "unavailable"} /\ OutcomesOf(g) # <<>>)
                   => OutcomesOf(g) = <<[file |-> g] @@ ErrNotFound>>

\* Three files: the first parses, the second fails to parse and its launch
\* does not find the executable, the third fails to parse and is reported
\* host-not-found without a launch.
C1_Witness ==
    /\ binRes[1] = "ok"
    /\ binRes[2] = "raised" /\ attempts[2] = 1 /\ procRes[2] = "notfound"
    /\ OutcomesOf(2) = <<[file |-> 2] @@ ErrNotFound>>
    /\ binRes[3] = "raised" /\ attempts[3] = 0
    /\ OutcomesOf(3) = <<[file |-> 3] @@ ErrNotFound>>

\* C2: the host process is tried for a file only after the binary parse of
\* that same file raised or when the parser is unavailable; a file whose
\* binary parse succeeded has exactly its parsed metadata emitted and no
\* launch.
C2_FallbackOnlyAfterBinaryFailure ==
    \A f \in FileIds :
        /\ attempts[f] > 0 => binRes[f] \in {"raised", "unavailable"}
        /\ (idx = f /\ ipc \in {"fallback", "running", "scan"})
               => binRes[f] \in {"raised", "unavailable"}
        /\ binRes[f] = "ok" =>
               /\ OutcomesOf(f) = <<[file |-> f] @@ MetadataRecord(ParsedMetadata)>>
               /\ attempts[f] = 0
               /\ procRes[f] = "none"

C2_Witness ==
    /\ binRes[1] = "ok" /\ attempts[1] = 0
    /\ OutcomesOf(1) = <<[file |-> 1] @@ MetadataRecord(ParsedMetadata)>>
    /\ binRes[2] = "raised" /\ attempts[2] = 1 /\ procRes[2] = "marker"
    /\ Len(OutcomesOf(2)) = 1

\* C3: cancellation is cooperative and checked between files: after stop()
\* no further file is started, a file that was started still gets its own
\* outcome, the thread never hangs, and all_done is emitted exactly once, at
\* the end.
C3_StateInv ==
    /\ all_done = (IF ipc = "done" THEN 1 ELSE 0)
    /\ ipc # "done" => ENABLED RunStep
    /\ \A f \in FileIds : f \notin started => OutcomesOf(f) = <<>>
    /\ ipc = "done" => \A f \in started : Len(OutcomesOf(f)) = 1
    /\ (ipc = "done" /\ ~_stop) => started = FileIds

C3_CooperativeCancellation ==
    /\ []C3_StateInv
    /\ [][_stop => started' = started]_vars
    /\ [][(_stop' /\ ~_stop) => (ipc' = ipc /\ idx' = idx /\ emitted' = emitted)]_vars

\* stop() arrived while file 1 was in progress: file 1 has its outcome, no
\* other file was started, and the batch completed.
C3_Witness ==
    /\ ipc = "done" /\ _stop /\ all_done = 1
    /\ started = {1}
    /\ Len(emitted) = 1 /\ emitted[1].file = 1
    /\ procRes[1] = "timeout"

\* C4: in a batch that is not cancelled every file of the list receives
\* exactly one outcome, metadata or an error record with a cause, whatever
\* happened to the other files, and all_done fires after the last file.
ErrorCauses == { "Blender not found", "Timeout (120s)", "No metadata found", "str(e)" }

C4_OneOutcomePerFile ==
    /\ \A f \in FileIds : Len(OutcomesOf(f)) <= 1
    /\ \A k \in 1..Len(emitted) :
          \/ emitted[k].kind = "metadata"
          \/ emitted[k].kind = "error" /\ emitted[k].val \in ErrorCauses
    /\ all_done > 0 => ipc = "done"
    /\ ipc # "done" => ENABLED RunStep
    /\ (ipc = "done" /\ ~_stop) =>
          /\ \A f \in FileIds : Len(OutcomesOf(f)) = 1
          /\ all_done = 1

\* An uncancelled batch in which file 1 timed out, file 2 printed no marker
\* line and file 3 still got its metadata.
C4_Witness ==
    /\ ipc = "done" /\ ~_stop /\ all_done = 1
    /\ procRes[1] = "timeout" /\ emitted[1] = [file |-> 1] @@ ErrTimeout
    /\ procRes[2] = "nomarker" /\ emitted[2] = [file |-> 2] @@ ErrNoMetadata
    /\ emitted[3].file = 3 /\ emitted[3].kind = "metadata"

\* C5: files are processed one after the other in list order: the k-th
\* outcome emitted is the outcome of the k-th file, and while file i is being
\* extracted exactly the files before it have their outcome.
C5_SequentialInOrder ==
    /\ \A k \in 1..Len(emitted) : emitted[k].file = k
    /\ InFile => (idx \in started /\ Len(emitted) = idx - 1)
    /\ \A f \in started : \A g \in FileIds :
          g < f => (g \in started /\ Len(OutcomesOf(g)) = 1)

C5_Witness ==
    /\ ipc = "running" /\ idx = 3
    /\ Len(emitted) = 2
    /\ emitted[1].file = 1 /\ emitted[2].file = 2
    /\ emitted[1].kind # emitted[2].kind

\* C6: a host process that exceeds the timeout is reported as a timeout
\* error and is not launched again for that file (at most one launch per
\* file per batch), and the batch goes on with the next file.
C6_TimeoutNotRetried ==
    /\ \A f \in FileIds : attempts[f] <= 1
    /\ \A f \in FileIds :
          procRes[f] = "timeout" =>
              /\ OutcomesOf(f) = <<[file |-> f] @@ ErrTimeout>>
              /\ idx = f + 1 \/ (idx > f /\ f + 1 \in started)
              /\ ipc # "done" => ENABLED RunStep
              /\ (ipc = "done" /\ ~_stop) => Len(emitted) = NumFiles

C6_Witness ==
    /\ procRes[1] = "timeout" /\ attempts[1] = 1
    /\ OutcomesOf(1) = <<[file |-> 1] @@ ErrTimeout>>
    /\ Len(OutcomesOf(2)) = 1 /\ OutcomesOf(2)[1].kind = "metadata"

\* C7: the fallback result comes only from the (first) stdout line that
\* starts with the marker, all other lines are ignored; a process that
\* exits without such a line yields a failure record and the batch goes on.
MarkerLines(out) ==
    SelectSeq(out, LAMBDA l : l # <<>> /\ Head(l) = "BLEND_INSPECTOR_JSON:")

C7_ScanStep ==
    (ipc = "scan" /\ ipc' # "scan") =>
        LET rec == emitted'[Len(emitted')]
            ml  == MarkerLines(procOut)
        IN  /\ Len(emitted') = Len(emitted) + 1
            /\ rec.file = idx
            /\ ipc' = "loop" /\ idx' = idx + 1
            /\ ml = <<>> => (rec.kind = "error" /\ rec.val = "No metadata found")
            /\ rec.kind = "metadata" =>
                  /\ ml # <<>>
                  /\ Tail(ml[1]) \in { <<"{A}">>, <<"{B}">> }
                  /\ rec.val = (IF Tail(ml[1]) = <<"{A}">> THEN "A" ELSE "B")
            /\ [kind |-> rec.kind, val |-> rec.val] = FallbackOutcome(ml)

C7_MarkerLineOnly ==
    /\ [][C7_ScanStep]_vars
    /\ [](\A f \in FileIds :
            /\ (procRes[f] = "nomarker" /\ (idx > f \/ ipc = "done"))
                   => OutcomesOf(f) = <<[file |-> f] @@ ErrNoMetadata>>
            /\ (OutcomesOf(f) # <<>> /\ OutcomesOf(f)[1].kind = "metadata"
                    /\ binRes[f] # "ok") => procRes[f] = "marker")

\* File 1's process printed noise only and is reported as a failure; file 2's
\* process printed noise and a marker line and got its metadata.
C7_Witness ==
    /\ procRes[1] = "nomarker"
    /\ OutcomesOf(1) = <<[file |-> 1] @@ ErrNoMetadata>>
    /\ procRes[2] = "marker"
    /\ OutcomesOf(2) = <<[file |-> 2, kind |-> "metadata", val |-> "B"]>>

\* ------------------------------------------------------------------------
\* RenderSettingsTab: the estimate of frames and tasks
\* ------------------------------------------------------------------------

MaxCalcFrame == 5
MaxCalcStep  == 3
MaxCalcFpt   == 4

\* Scene names of a file, by position.
SceneNames == <<"SceneA", "SceneB", "SceneC">>

\* One entry of metadata["scenes"] with every key present.  missing names
\* the keys the dict lacks: such a key holds what the planner's and the
\* tab's scene.get(key, default) give for it.
Scene(nm, s, e, st, out, fmt, layers) ==
    [ name |-> nm, frame_start |-> s, frame_end |-> e, frame_step |-> st,
      output_path |-> out, output_format |-> fmt, view_layers |-> layers,
      parse_error |-> "", missing |-> {} ]

\* Python's a // b for b > 0: the quotient rounded towards minus infinity.
floor_div(a, b) == a \div b

\* max(0, (end - start) // step + 1) if step > 0 else 0
total_frames(start, end, step) ==
    IF step > 0 THEN Max(0, floor_div(end - start, step) + 1) ELSE 0

ceil_div_floor(a, b) == a \div b

\* math.ceil(a / b) for b > 0.  The operands are frame counts of at most
\* 32 bits, so the float quotient a / b rounds to the same integer.
ceil_div(a, b) == IF a % b = 0 THEN a \div b ELSE (a \div b) + 1

\* The loop of the all-scenes branch over scenes[k..], as (frames, tasks).
RECURSIVE SumScenes(_, _, _)
SumScenes(scenes, k, fpt) ==
    IF k > Len(scenes) THEN <<0, 0>>
    ELSE LET frames == total_frames(scenes[k].frame_start,
                                    scenes[k].frame_end,
                                    scenes[k].frame_step)
             tasks  == IF fpt > 0 /\ frames > 0 THEN ceil_div(frames, fpt)
                       ELSE 0
             rest   == SumScenes(scenes, k + 1, fpt)
         IN  <<frames + rest[1], tasks + rest[2]>>

\* RenderSettingsTab._update_calculated, on the tab record t.
_update_calculated(t) ==
    IF t.scene_combo = ALL_SCENES
    THEN LET tot == SumScenes(t.scenes_data, 1, t.fpt_spin)
         IN  [t EXCEPT
                !.total_frames_label = [shown |-> TRUE, n |-> tot[1], all |-> TRUE],
                !.total_tasks_label  = [shown |-> TRUE, n |-> tot[2], all |-> TRUE]]
    ELSE LET frames == total_frames(t.frame_start_spin, t.frame_end_spin,
                                    t.frame_step_spin)
             tasks  == IF t.fpt_spin > 0 THEN ceil_div(frames, t.fpt_spin)
                       ELSE 0
         IN  [t EXCEPT
                !.total_frames_label = [shown |-> TRUE, n |-> frames, all |-> FALSE],
                !.total_tasks_label  = [shown |-> TRUE, n |-> tasks, all |-> FALSE]]

\* Values of the frame spin boxes and of a scene's frame fields.
CalcFrames == (0..MaxCalcFrame) \cup {250}
CalcSceneFrames == {1, MaxCalcFrame, 250}

CalcScenes(i) ==
    { Scene(SceneNames[i], s, e, st, "", "PNG", <<>>) :
        s \in CalcSceneFrames, e \in CalcSceneFrames, st \in 0..MaxCalcStep }

CalcScenesData ==
    {<<>>} \cup { <<a>> : a \in CalcScenes(1) }
           \cup { <<a, b>> : a \in CalcScenes(1), b \in CalcScenes(2) }

\* The tab before an estimate: either one scene is selected and the spin
\* boxes hold any values of their ranges, or ALL_SCENES is selected over any
\* scene list.
CalcTabs ==
    { [InitialTab EXCEPT !.scene_items = <<SceneNames[1]>>,
                         !.scene_combo = SceneNames[1],
                         !.frame_start_spin = s, !.frame_end_spin = e,
                         !.frame_step_spin = st, !.fpt_spin = f] :
        s \in CalcFrames, e \in CalcFrames,
        st \in SpinStepMin..MaxCalcStep, f \in SpinFptMin..MaxCalcFpt }
    \cup
    { [InitialTab EXCEPT !.scene_items = <<ALL_SCENES>> \o SceneNames,
                         !.scene_combo = ALL_SCENES,
                         !.scenes_data = sd, !.fpt_spin = f] :
        sd \in CalcScenesData, f \in SpinFptMin..MaxCalcFpt }

CalcInit ==
    /\ InspIdle
    /\ UiIdle!1 /\ UiIdle!2 /\ UiIdle!3 /\ UiIdle!4 /\ UiIdle!5
    /\ render_tab \in CalcTabs
    /\ UiIdle!7 /\ UiIdle!8 /\ UiIdle!9 /\ UiIdle!10
    /\ AuxIdle

\* A valueChanged signal of a spin box runs the slot.
UpdateCalculated ==
    /\ ~render_tab.total_frames_label.shown
    /\ render_tab' = _update_calculated(render_tab)
    /\ UNCHANGED <<inspVars, auxVars, app, blend, has_file_data, file_data,
                   current_filepath, submit_pending, job_fd,
                   plan_status, job_blocks>>

CalcNext == UpdateCalculated

SpecCalc == CalcInit /\ [][CalcNext]_vars

\* ------------------------------------------------------------------------
\* Claims about the estimate
\* ------------------------------------------------------------------------

\* The number of frames start, start + step, ... that do not exceed end.
C8_Frames(s, e, st) ==
    IF e < s THEN 0
    ELSE CHOOSE n \in 1..(e - s + 1) : s + (n - 1) * st <= e /\ e < s + n * st

\* The least number of tasks of fpt frames that hold n frames.
C8_Tasks(n, fpt) ==
    CHOOSE m \in 0..n : m * fpt >= n /\ (m = 0 \/ (m - 1) * fpt < n)

RECURSIVE C8_Sum(_, _)
C8_Sum(q, k) == IF k > Len(q) THEN 0 ELSE q[k] + C8_Sum(q, k + 1)

\* C8: for step >= 1 and frames_per_task >= 1 the estimate shown by
\* _update_calculated is total_frames = max(0, (end - start) // step + 1)
\* and total_tasks = ceil(total_frames / frames_per_task), from the spin
\* boxes in the single-scene branch and summed over the scenes in the
\* all-scenes branch; (1, 250, 1, 3) gives 250 and 84, end < start gives 0
\* and 0.
C8_EstimateFormula ==
    LET t == render_tab IN
    t.total_frames_label.shown =>
      /\ t.total_tasks_label.shown
      /\ t.scene_combo # ALL_SCENES =>
           LET n == C8_Frames(t.frame_start_spin, t.frame_end_spin,
                              t.frame_step_spin)
           IN  /\ t.total_frames_label = [shown |-> TRUE, n |-> n, all |-> FALSE]
               /\ t.total_tasks_label =
                    [shown |-> TRUE, n |-> C8_Tasks(n, t.fpt_spin), all |-> FALSE]
               /\ ( /\ t.frame_start_spin = 1 /\ t.frame_end_spin = 250
                    /\ t.frame_step_spin = 1 /\ t.fpt_spin = 3 )
                    => t.total_frames_label.n = 250 /\ t.total_tasks_label.n = 84
               /\ t.frame_end_spin < t.frame_start_spin
                    => t.total_frames_label.n = 0 /\ t.total_tasks_label.n = 0
      /\ ( /\ t.scene_combo = ALL_SCENES
           /\ \A k \in 1..Len(t.scenes_data) : t.scenes_data[k].frame_step >= 1 ) =>
           LET fr == [k \in 1..Len(t.scenes_data) |->
                        C8_Frames(t.scenes_data[k].frame_start,
                                  t.scenes_data[k].frame_end,
                                  t.scenes_data[k].frame_step)]
               tk == [k \in 1..Len(t.scenes_data) |-> C8_Tasks(fr[k], t.fpt_spin)]
           IN  /\ t.total_frames_label =
                    [shown |-> TRUE, n |-> C8_Sum(fr, 1), all |-> TRUE]
               /\ t.total_tasks_label =
                    [shown |-> TRUE, n |-> C8_Sum(tk, 1), all |-> TRUE]

\* The all-scenes estimate of a file whose first scene is 1..250 step 1 and
\* whose second scene ends before it starts, three frames per task: 250
\* frames in 84 tasks.
C8_Witness ==
    /\ render_tab.scene_combo = ALL_SCENES
    /\ Len(render_tab.scenes_data) = 2
    /\ render_tab.scenes_data[1].frame_start = 1
    /\ render_tab.scenes_data[1].frame_end = 250
    /\ render_tab.scenes_data[1].frame_step = 1
    /\ render_tab.scenes_data[2].frame_end < render_tab.scenes_data[2].frame_start
    /\ render_tab.scenes_data[2].frame_step = 1
    /\ render_tab.fpt_spin = 3
    /\ render_tab.total_frames_label = [shown |-> TRUE, n |-> 250, all |-> TRUE]
    /\ render_tab.total_tasks_label = [shown |-> TRUE, n |-> 84, all |-> TRUE]

\* ------------------------------------------------------------------------
\* RenderSettingsTab: the handlers
\* ------------------------------------------------------------------------

\* A view layer as a plain name (what get_view_layers and the inspector
\* script write) and as a dict with "name" and "use".
StrLayer(n)    == [form |-> "str", name |-> n, use |-> TRUE]
RecLayer(n, u) == [form |-> "rec", name |-> n, use |-> u]

\* layer_data.get(...) on a str raises AttributeError.
LayerGetRaises(layers) == \E i \in 1..Len(layers) : layers[i].form = "str"

\* str.strip() on the layer names of the model.
strip(n) == CASE n = " L2" -> "L2" [] n = " " -> "" [] OTHER -> n

\* next((s for s in scenes if s["name"] == name), None) as an index, 0 for
\* None.
SceneIndex(scenes, nm) ==
    LET ks == { k \in 1..Len(scenes) : scenes[k].name = nm }
    IN  IF ks = {} THEN 0 ELSE CHOOSE k \in ks : \A j \in ks : k <= j

\* QSpinBox.setValue keeps the value inside the range of the box.
SpinClamp(v, lo, hi) == Max(lo, Min(hi, v))

SpinLo(spin) == CASE spin \in {"frame_start_spin", "frame_end_spin"} -> SpinFrameMin
                  [] spin = "frame_step_spin" -> SpinStepMin
                  [] OTHER -> SpinFptMin
SpinHi(spin) == CASE spin \in {"frame_start_spin", "frame_end_spin"} -> SpinFrameMax
                  [] spin = "frame_step_spin" -> SpinStepMax
                  [] OTHER -> SpinFptMax

\* The field name that _connect_override_tracking ties to each spin box.
SpinField(spin) == CASE spin = "frame_start_spin" -> "frame_start"
                     [] spin = "frame_end_spin" -> "frame_end"
                     [] spin = "frame_step_spin" -> "frame_step"
                     [] OTHER -> "frames_per_task"

\* A variant that also records the scene selection as an override.
_mark_override_Selection(c, field_name) ==
    IF ~c.updating /\ c.t.has_current
    THEN [c EXCEPT !.d.user_overrides = @ \cup {field_name, "selected_scene"}]
    ELSE c

\* The handlers below work on c = [t, d, updating]: the tab, the
\* BlendFileData that _current_file_data refers to, and the _updating flag.
_mark_override(c, field_name) ==
    IF ~c.updating /\ c.t.has_current
    THEN [c EXCEPT !.d.user_overrides = @ \cup {field_name}]
    ELSE c

\* spin.setValue(v): valueChanged fires only when the value changes, and
\* runs _update_calculated and _mark_override.
SetValue(c, spin, v) ==
    LET nv == SpinClamp(v, SpinLo(spin), SpinHi(spin))
    IN  IF nv = c.t[spin] THEN c
        ELSE _mark_override(
               [c EXCEPT !.t = _update_calculated([c.t EXCEPT ![spin] = nv])],
               SpinField(spin))

\* output_edit.setText(v): textChanged fires only when the text changes.
SetOutputText(c, v) ==
    IF v = c.t.output_edit THEN c
    ELSE _mark_override([c EXCEPT !.t.output_edit = v], "output_path")

\* format_combo.setCurrentIndex(findText(fmt)) when the text is an item.
SetFormat(c, fmt) ==
    IF fmt \notin SeqToSet(FormatItems) \/ fmt = c.t.format_combo THEN c
    ELSE _mark_override([c EXCEPT !.t.format_combo = fmt], "output_format")

_populate_layers_raises(t) ==
    LET k == SceneIndex(t.scenes_data, t.scene_combo)
    IN  /\ t.scene_combo # ALL_SCENES
        /\ k # 0
        /\ LayerGetRaises(t.scenes_data[k].view_layers)

\* _populate_layers: the items of layers_list as [text, checkable, checked].
_populate_layers(t, selected_layers) ==
    LET k == SceneIndex(t.scenes_data, t.scene_combo)
        item(l) == [ text |-> l.name, checkable |-> l.use,
                     checked |-> l.use /\ ( l.name \in SeqToSet(selected_layers)
                                            \/ selected_layers = <<>> ) ]
    IN  IF t.scene_combo = ALL_SCENES
        THEN [t EXCEPT !.layers_list =
                <<[text |-> ALL_LAYERS_NOTE, checkable |-> FALSE, checked |-> FALSE]>>]
        ELSE IF k = 0 THEN [t EXCEPT !.layers_list = <<>>]
        ELSE [t EXCEPT !.layers_list =
                [i \in 1..Len(t.scenes_data[k].view_layers) |->
                    item(t.scenes_data[k].view_layers[i])]]

\* The items populate_from_file puts into scene_combo, and the current one:
\* the first item after clear(), or selected_scene when findText finds it.
SceneItems(fd) ==
    IF Len(fd.scenes) > 0
    THEN (IF Len(fd.scenes) > 1 THEN <<ALL_SCENES>> ELSE <<>>)
         \o [k \in 1..Len(fd.scenes) |-> fd.scenes[k].name]
    ELSE <<NO_SCENES>>

SceneCurrent(fd) ==
    IF /\ Len(fd.scenes) > 0
       /\ fd.selected_scene # ""
       /\ fd.selected_scene \in SeqToSet(SceneItems(fd))
    THEN fd.selected_scene
    ELSE SceneItems(fd)[1]

populate_from_file_raises(t, fd) ==
    _populate_layers_raises([t EXCEPT !.scenes_data = fd.scenes,
                                      !.scene_combo = SceneCurrent(fd)])

\* populate_from_file: _updating is set, so no override is marked.
populate_from_file(t, fd) ==
    LET c0 == [ t |-> [t EXCEPT !.has_current = TRUE,
                                !.scenes_data = fd.scenes,
                                !.scene_items = SceneItems(fd),
                                !.scene_combo = SceneCurrent(fd)],
                d |-> fd, updating |-> TRUE ]
        ov == fd.user_overrides
        c1 == IF "frame_start" \notin ov
              THEN SetValue(c0, "frame_start_spin", fd.frame_start) ELSE c0
        c2 == IF "frame_end" \notin ov
              THEN SetValue(c1, "frame_end_spin", fd.frame_end) ELSE c1
        c3 == IF "frame_step" \notin ov
              THEN SetValue(c2, "frame_step_spin", fd.frame_step) ELSE c2
        c4 == IF "frames_per_task" \notin ov
              THEN SetValue(c3, "fpt_spin", fd.frames_per_task) ELSE c3
        c5 == IF "output_path" \notin ov
              THEN SetOutputText(c4, fd.output_path) ELSE c4
        c6 == IF "output_format" \notin ov
              THEN SetFormat(c5, fd.output_format) ELSE c5
        t7 == _populate_layers(c6.t, fd.selected_layers)
    IN  _update_calculated(
          [t7 EXCEPT !.parallel_layers_check = fd.render_layers_parallel])

\* first_scene["frame_start"] and ["frame_end"] raise KeyError on a dict
\* that lacks the key; layer_data.get raises on a str.
_on_scene_changed_raises(t) ==
    LET k == IF t.scene_combo = ALL_SCENES
             THEN (IF Len(t.scenes_data) > 0 THEN 1 ELSE 0)
             ELSE SceneIndex(t.scenes_data, t.scene_combo)
    IN  \/ k # 0 /\ t.scenes_data[k].missing \cap {"frame_start", "frame_end"} # {}
        \/ _populate_layers_raises(t)

\* _on_scene_changed after the user picked t.scene_combo: _updating is not
\* set, so every value the handler changes is marked as an override.
_on_scene_changed(c) ==
    LET sd == c.t.scenes_data
        k  == SceneIndex(sd, c.t.scene_combo)
    IN  IF c.t.scene_combo = ALL_SCENES
        THEN LET c1 == IF Len(sd) > 0
                       THEN SetFormat(
                              SetOutputText(
                                SetValue(
                                  SetValue(
                                    SetValue(c, "frame_start_spin", sd[1].frame_start),
                                    "frame_end_spin", sd[1].frame_end),
                                  "frame_step_spin", sd[1].frame_step),
                                "(per-scene settings)"),
                              FormatItems[1])
                       ELSE c
             IN  [c1 EXCEPT !.t = _update_calculated(_populate_layers(c1.t, <<>>))]
        ELSE IF k = 0 THEN c
        ELSE LET c1 == SetFormat(
                         SetOutputText(
                           SetValue(
                             SetValue(
                               SetValue(c, "frame_start_spin", sd[k].frame_start),
                               "frame_end_spin", sd[k].frame_end),
                             "frame_step_spin", sd[k].frame_step),
                           sd[k].output_path),
                         sd[k].output_format)
             IN  [c1 EXCEPT !.t = _update_calculated(
                                    _populate_layers(c1.t, c1.d.selected_layers))]

\* get_selected_layers: the stripped, non-empty texts of the checked items.
get_selected_layers(t) ==
    LET on == SelectSeq(t.layers_list,
                        LAMBDA it : it.checkable /\ it.checked /\ strip(it.text) # "")
    IN  [i \in 1..Len(on) |-> strip(on[i].text)]

apply_to_file_data(t, fd) ==
    [fd EXCEPT !.selected_scene = t.scene_combo,
               !.selected_layers = get_selected_layers(t),
               !.frame_start = t.frame_start_spin,
               !.frame_end = t.frame_end_spin,
               !.frame_step = t.frame_step_spin,
               !.frames_per_task = t.fpt_spin,
               !.output_path = t.output_edit,
               !.output_format = t.format_combo,
               !.render_layers_parallel = t.parallel_layers_check]

\* ------------------------------------------------------------------------
\* The planner: submit_blend_job
\* ------------------------------------------------------------------------

\* An af.Block: its name as the parts the f-string joins, the arguments of
\* setNumeric, and the options of the command line.  layers is the planner's
\* layer_names argument the block was made for; the command itself names
\* no layer.
Block(nm, scene_name, layers, fs, fe, fpt, st, out, fmt) ==
    [ name |-> nm, scene |-> scene_name, layers |-> layers,
      numeric |-> <<fs, fe, fpt, st>>,
      cmd |-> [S |-> scene_name, o |-> out, F |-> fmt, j |-> st],
      wd |-> "dirname(F)" ]

_create_block_for_layer(scene_name, layer_name, fs, fe, fpt, st, out, fmt) ==
    LET base == IF scene_name # "" THEN scene_name ELSE "render"
        nm   == IF layer_name # "" THEN <<base, "_", layer_name>> ELSE <<base>>
    IN  Block(nm, scene_name, <<layer_name>>, fs, fe, fpt, st, out, fmt)

_create_single_block_for_layers(scene_name, layer_names, fs, fe, fpt, st, out, fmt) ==
    LET nm == IF Len(layer_names) = 1
              THEN (IF scene_name # "" THEN <<scene_name, "_", layer_names[1]>>
                    ELSE <<layer_names[1]>>)
              ELSE (IF scene_name # "" THEN <<scene_name, "_", "AllLayers">>
                    ELSE <<"AllLayers">>)
    IN  Block(nm, scene_name, layer_names, fs, fe, fpt, st, out, fmt)

\* The blocks of one scene in either layout.
SceneBlocks(parallel_mode, scene_name, layer_names, fs, fe, fpt, st, out, fmt) ==
    IF parallel_mode
    THEN [i \in 1..Len(layer_names) |->
            _create_block_for_layer(scene_name, layer_names[i],
                                    fs, fe, fpt, st, out, fmt)]
    ELSE <<_create_single_block_for_layers(scene_name, layer_names,
                                           fs, fe, fpt, st, out, fmt)>>

\* layer_names or [""]
OrActiveLayer(layer_names) == IF layer_names = <<>> THEN <<"">> ELSE layer_names

\* The names _submit_single_scene_mode keeps of file_data.selected_layers.
SelectedLayerNames(fd) ==
    LET layers == OrActiveLayer(fd.selected_layers)
        kept   == SelectSeq(layers, LAMBDA l : strip(l) # "")
    IN  OrActiveLayer([i \in 1..Len(kept) |-> strip(kept[i])])

_submit_single_scene_mode(fd, parallel_mode) ==
    SceneBlocks(parallel_mode, fd.selected_scene, SelectedLayerNames(fd),
                fd.frame_start, fd.frame_end, fd.frames_per_task,
                fd.frame_step, fd.output_path, fd.output_format)

\* The names _submit_all_scenes_mode keeps of a scene's view_layers.
EnabledLayerNames(scene) ==
    LET kept == SelectSeq(scene.view_layers,
                          LAMBDA l : l.use /\ strip(l.name) # "")
    IN  OrActiveLayer([i \in 1..Len(kept) |-> strip(kept[i].name)])

_submit_all_scenes_mode_raises(fd) ==
    \E k \in 1..Len(fd.scenes) : LayerGetRaises(fd.scenes[k].view_layers)

\* The loop of _submit_all_scenes_mode with the blocks of later scenes put in
\* front.
RECURSIVE AllScenesBlocks_LaterFirst(_, _, _)
AllScenesBlocks_LaterFirst(fd, parallel_mode, k) ==
    IF k > Len(fd.scenes) THEN <<>>
    ELSE LET scene == fd.scenes[k]
         IN  AllScenesBlocks_LaterFirst(fd, parallel_mode, k + 1)
             \o SceneBlocks(parallel_mode, scene.name, EnabledLayerNames(scene),
                            scene.frame_start, scene.frame_end,
                            fd.frames_per_task, scene.frame_step,
                            scene.output_path, scene.output_format)

RECURSIVE AllScenesBlocks(_, _, _)
AllScenesBlocks(fd, parallel_mode, k) ==
    IF k > Len(fd.scenes) THEN <<>>
    ELSE LET scene == fd.scenes[k]
         IN  SceneBlocks(parallel_mode, scene.name, EnabledLayerNames(scene),
                         scene.frame_start, scene.frame_end,
                         fd.frames_per_task, scene.frame_step,
                         scene.output_path, scene.output_format)
             \o AllScenesBlocks(fd, parallel_mode, k + 1)

_submit_all_scenes_mode(fd, parallel_mode) == AllScenesBlocks(fd, parallel_mode, 1)

submit_blend_job_raises(fd) ==
    fd.selected_scene = ALL_SCENES /\ _submit_all_scenes_mode_raises(fd)

\* A planner that keeps one job for every call: the blocks of the calls
\* before stay in job.blocks.
submit_blend_job_SharedJob(fd) ==
    (IF plan_runs = <<>> THEN <<>> ELSE plan_runs[Len(plan_runs)].blocks)
    \o (IF fd.selected_scene = ALL_SCENES
        THEN _submit_all_scenes_mode(fd, fd.render_layers_parallel)
        ELSE _submit_single_scene_mode(fd, fd.render_layers_parallel))

\* The blocks of the job that submit_blend_job sends.
submit_blend_job(fd) ==
    IF fd.selected_scene = ALL_SCENES
    THEN _submit_all_scenes_mode(fd, fd.render_layers_parallel)
    ELSE _submit_single_scene_mode(fd, fd.render_layers_parallel)

\* ------------------------------------------------------------------------
\* MainWindow: one file "F" in the file panel, checked for submission
\* ------------------------------------------------------------------------

MaxScenes == 2
MaxLayers == 2
MaxEdit   == 1

LayerNames == <<"L1", "L2", "L3">>
OutPaths   == <<"/out/a", "/out/b", "/out/c">>

\* The i-th scene of the file: frames i .. 3i + 1 in steps of i.
PlanScene(i, layers) ==
    Scene(SceneNames[i], i, 3 * i + 1, i, OutPaths[i], FormatItems[i], layers)

\* The view_layers lists of one producer: plain names, or dicts with any
\* "use" flags.
LayerLists(form) ==
    UNION { IF form = "str"
            THEN { [i \in 1..n |-> StrLayer(LayerNames[i])] }
            ELSE { [i \in 1..n |-> RecLayer(LayerNames[i], u[i])] :
                     u \in [1..n -> BOOLEAN] } : n \in 0..MaxLayers }

\* The metadata an inspection of the file yields.
Blends ==
    UNION { { [scenes |-> [i \in 1..n |-> PlanScene(i, ls[i])]] :
                ls \in [1..n -> LayerLists(form)] } :
            form \in {"str", "rec"}, n \in 0..MaxScenes }

PlanInit ==
    /\ InspIdle
    /\ UiIdle!1
    /\ blend \in Blends
    /\ UiIdle!3 /\ UiIdle!4 /\ UiIdle!5 /\ UiIdle!6
    /\ UiIdle!7 /\ UiIdle!8 /\ UiIdle!9 /\ UiIdle!10
    /\ AuxIdle

\* The outcomes of SubmitThread.run for the job.
ThreadDone == {"submitted", "rejected", "send_raised", "raised"}

\* The main thread takes the next event.  The signals of a finished
\* SubmitThread are handled before anything else: their slots change
\* nothing the other handlers read.
EventLoop == app = "running" /\ plan_status \notin ThreadDone

\* A signal of the InspectorThread is handled.  The model follows
\* inspections that end before the file is submitted or after the
\* submission is done.
InspectionEvent == EventLoop /\ plan_status # "pending"

\* The main window takes input: no modal message box is open.
UserInput == EventLoop /\ plan_status # "blocked"

\* The spin boxes the user of the model edits.
EditSpins == {"fpt_spin"}

\* An exception that leaves a slot ends the process: PyQt6 calls qFatal()
\* when no sys.excepthook is installed, and the source installs none.
SlotRaises ==
    /\ app' = "aborted"
    /\ UNCHANGED <<inspVars, auxVars, blend, has_file_data, file_data, current_filepath,
                   render_tab, submit_pending, job_fd,
                   plan_status, job_blocks>>

\* The BlendFileData the job of a running SubmitThread refers to: the
\* object in file_data, which the handlers of the main thread change in
\* place.
JobFileData == file_data

\* The BlendFileData _on_file_inspected builds from the metadata.
InspectedFileData(md, fpt) ==
    LET has   == Len(md.scenes) > 0
        first == md.scenes[1]
        on    == IF has THEN SelectSeq(first.view_layers, LAMBDA l : l.use)
                 ELSE <<>>
    IN  [DefaultFileData EXCEPT
           !.inspected = TRUE,
           !.scenes = md.scenes,
           !.selected_scene = IF has THEN first.name ELSE "",
           !.selected_layers = [i \in 1..Len(on) |-> on[i].name],
           !.frame_start = IF has THEN first.frame_start ELSE 1,
           !.frame_end = IF has THEN first.frame_end ELSE 250,
           !.frame_step = IF has THEN first.frame_step ELSE 1,
           !.frames_per_task = fpt,
           !.output_path = IF has THEN first.output_path ELSE "",
           !.output_format = IF has /\ "output_format" \notin first.missing
                             THEN first.output_format ELSE "OPEN_EXR"]

_on_file_inspected_raises(md) ==
    Len(md.scenes) > 0 /\ LayerGetRaises(md.scenes[1].view_layers)

\* _on_file_inspected with the metadata of the file.  The new BlendFileData
\* replaces the object in file_data; a job that was built before keeps the
\* old object.
OnFileInspected ==
    /\ InspectionEvent
    /\ LET fd == InspectedFileData(blend, render_tab.fpt_spin)
       IN  IF \/ _on_file_inspected_raises(blend)
              \/ (current_filepath = "F" /\ populate_from_file_raises(render_tab, fd))
           THEN SlotRaises
           ELSE /\ file_data' = fd
                /\ has_file_data' = TRUE
                /\ render_tab' = IF current_filepath = "F"
                                 THEN populate_from_file(render_tab, fd)
                                 ELSE render_tab
                /\ UNCHANGED <<inspVars, auxVars, app, blend, current_filepath,
                               submit_pending, job_fd, plan_status, job_blocks>>

\* _on_file_inspected with an error record.
OnFileInspectedError ==
    /\ InspectionEvent
    /\ \E r \in {ErrNoMetadata} :
         file_data' = [(IF has_file_data THEN file_data ELSE DefaultFileData)
                         EXCEPT !.error = r.val]
    /\ has_file_data' = TRUE
    /\ UNCHANGED <<inspVars, auxVars, app, blend, current_filepath, render_tab,
                   submit_pending, job_fd, plan_status, job_blocks>>

\* _on_file_selected("F").
OnFileSelected ==
    /\ UserInput
    /\ LET d1 == IF current_filepath = "F" /\ has_file_data
                 THEN apply_to_file_data(render_tab, file_data)
                 ELSE IF has_file_data THEN file_data ELSE DefaultFileData
       IN  IF populate_from_file_raises(render_tab, d1)
           THEN SlotRaises
           ELSE /\ file_data' = d1
                /\ has_file_data' = TRUE
                /\ current_filepath' = "F"
                /\ render_tab' = populate_from_file(render_tab, d1)
                /\ UNCHANGED <<inspVars, auxVars, app, blend, submit_pending, job_fd, plan_status, job_blocks>>

\* The user picks another entry of scene_combo.
OnSceneChanged ==
    /\ UserInput
    /\ \E nm \in SeqToSet(render_tab.scene_items) \ {render_tab.scene_combo} :
         LET t1 == [render_tab EXCEPT !.scene_combo = nm]
             c  == _on_scene_changed([t |-> t1, d |-> file_data, updating |-> FALSE])
         IN  IF _on_scene_changed_raises(t1)
             THEN SlotRaises
             ELSE /\ render_tab' = c.t
                  /\ file_data' = c.d
                  /\ UNCHANGED <<inspVars, auxVars, app, blend, has_file_data,
                                 current_filepath, submit_pending, job_fd, plan_status, job_blocks>>

\* The user types a value into one of the four spin boxes.
EditSpin ==
    /\ UserInput
    /\ \E spin \in EditSpins,
          v \in 1..MaxEdit :
         LET c == SetValue([t |-> render_tab, d |-> file_data, updating |-> FALSE],
                           spin, v)
         IN  /\ render_tab[spin] # v
             /\ render_tab' = c.t
             /\ file_data' = c.d
    /\ UNCHANGED <<inspVars, auxVars, app, blend, has_file_data, current_filepath,
                   submit_pending, job_fd, plan_status, job_blocks>>

\* The user ticks or unticks a checkable entry of layers_list.
ToggleLayer ==
    /\ UserInput
    /\ \E i \in 1..Len(render_tab.layers_list) :
         /\ render_tab.layers_list[i].checkable
         /\ render_tab' = [render_tab EXCEPT !.layers_list[i].checked = ~@]
    /\ UNCHANGED <<inspVars, auxVars, app, blend, has_file_data, file_data,
                   current_filepath, submit_pending, job_fd,
                   plan_status, job_blocks>>

\* _check_all_layers and _uncheck_all_layers; the buttons are enabled while
\* the list has a checkable entry.
SetAllLayers(state) ==
    /\ UserInput
    /\ \E i \in 1..Len(render_tab.layers_list) : render_tab.layers_list[i].checkable
    /\ render_tab' = [render_tab EXCEPT !.layers_list =
                        [i \in 1..Len(@) |->
                           IF @[i].checkable THEN [@[i] EXCEPT !.checked = state]
                           ELSE @[i]]]
    /\ UNCHANGED <<inspVars, auxVars, app, blend, has_file_data, file_data,
                   current_filepath, submit_pending, job_fd,
                   plan_status, job_blocks>>

_check_all_layers == SetAllLayers(TRUE)

_uncheck_all_layers == SetAllLayers(FALSE)

\* The user toggles parallel_layers_check: _on_parallel_mode_changed.
OnParallelModeChanged ==
    /\ UserInput
    /\ render_tab' = [render_tab EXCEPT !.parallel_layers_check = ~@]
    /\ file_data' = IF render_tab.has_current
                    THEN [file_data EXCEPT !.render_layers_parallel =
                            ~render_tab.parallel_layers_check]
                    ELSE file_data
    /\ UNCHANGED <<inspVars, auxVars, app, blend, has_file_data, current_filepath,
                   submit_pending, job_fd, plan_status, job_blocks>>

\* _reset_overrides; reset_btn is enabled while the file has overrides.
ResetOverrides ==
    /\ UserInput
    /\ render_tab.has_current
    /\ file_data.user_overrides # {}
    /\ LET d1 == [file_data EXCEPT !.user_overrides = {}]
       IN  IF populate_from_file_raises(render_tab, d1)
           THEN SlotRaises
           ELSE /\ file_data' = d1
                /\ render_tab' = populate_from_file(render_tab, d1)
                /\ UNCHANGED <<inspVars, auxVars, app, blend, has_file_data,
                               current_filepath, submit_pending, job_fd, plan_status, job_blocks>>

\* _submit_selected with a Blender path set and the file checked.  The
\* submit button is disabled until _on_submit_done.
SubmitSelected ==
    /\ UserInput
    /\ ~submit_pending
    /\ LET d1 == IF current_filepath = "F" /\ has_file_data
                 THEN apply_to_file_data(render_tab, file_data)
                 ELSE file_data
           no_layers == /\ has_file_data
                        /\ d1.selected_scene # ALL_SCENES
                        /\ d1.selected_layers = <<>>
       IN  IF no_layers
           THEN /\ file_data' = d1
                /\ plan_status' = "blocked"
                /\ job_blocks' = <<>>
                /\ UNCHANGED <<has_file_data, submit_pending, job_fd>>
           ELSE /\ file_data' = IF has_file_data THEN d1 ELSE DefaultFileData
                /\ has_file_data' = TRUE
                /\ submit_pending' = TRUE
                /\ job_fd' = DefaultFileData
                /\ plan_status' = "pending"
                /\ job_blocks' = <<>>
    /\ UNCHANGED <<inspVars, auxVars, app, blend, current_filepath, render_tab>>

\* SubmitThread.run for the job: submit_blend_job plans the blocks and
\* sends the job; an exception anywhere is reported as a failure.
SubmitJob ==
    /\ app = "running"
    /\ plan_status = "pending"
    /\ job_fd' = JobFileData
    /\ IF submit_blend_job_raises(JobFileData)
       THEN plan_status' = "raised" /\ job_blocks' = <<>>
       ELSE /\ job_blocks' = submit_blend_job(JobFileData)
            /\ plan_status' \in {"submitted", "rejected", "send_raised"}
    /\ UNCHANGED <<inspVars, auxVars, app, blend, has_file_data, file_data,
                   current_filepath, render_tab, submit_pending>>

\* _on_job_submitted and _on_submit_done; the finished thread and its job
\* are not used again.
OnSubmitDone ==
    /\ app = "running"
    /\ submit_pending
    /\ plan_status \in ThreadDone
    /\ submit_pending' = FALSE
    /\ job_fd' = DefaultFileData
    /\ plan_status' = "none"
    /\ job_blocks' = <<>>
    /\ UNCHANGED <<inspVars, auxVars, app, blend, has_file_data, file_data,
                   current_filepath, render_tab>>

\* The user closes the "Layer Selection Required" box; _submit_selected
\* returns.
DismissWarning ==
    /\ app = "running"
    /\ plan_status = "blocked"
    /\ plan_status' = "none"
    /\ UNCHANGED <<inspVars, auxVars, app, blend, has_file_data, file_data,
                   current_filepath, render_tab, submit_pending, job_fd, job_blocks>>

PlanNext ==
    \/ OnFileInspected
    \/ OnFileInspectedError
    \/ OnFileSelected
    \/ OnSceneChanged
    \/ EditSpin
    \/ ToggleLayer
    \/ _check_all_layers
    \/ _uncheck_all_layers
    \/ OnParallelModeChanged
    \/ ResetOverrides
    \/ SubmitSelected
    \/ SubmitJob
    \/ OnSubmitDone
    \/ DismissWarning

SpecPlan == PlanInit /\ [][PlanNext]_vars

\* ------------------------------------------------------------------------
\* Claims about the planner
\* ------------------------------------------------------------------------

\* submit_blend_job has run on job_fd, to its end or to an exception.
PlannerRan == plan_status \in ThreadDone

\* The scenes the job is to render: every scene of the file under the
\* all-scenes entry, the selected scene otherwise.
TargetScenes ==
    IF job_fd.selected_scene = ALL_SCENES
    THEN { job_fd.scenes[k].name : k \in 1..Len(job_fd.scenes) }
    ELSE { job_fd.selected_scene }

BlocksFor(nm) == SelectSeq(job_blocks, LAMBDA b : b.scene = nm)

\* The names of the layers of scene nm that are enabled in the file; a plain
\* name stands for an enabled layer.
EnabledIn(nm) ==
    LET k == SceneIndex(job_fd.scenes, nm)
    IN  IF k = 0 THEN {}
        ELSE { job_fd.scenes[k].view_layers[i].name :
                 i \in { j \in 1..Len(job_fd.scenes[k].view_layers) :
                           job_fd.scenes[k].view_layers[j].use } }

\* The effective layers of target scene nm: the enabled, named layers of
\* the scene under the all-scenes entry, the named selected layers
\* otherwise.
EffectiveLayers(nm) ==
    IF job_fd.selected_scene = ALL_SCENES
    THEN LET ls == job_fd.scenes[SceneIndex(job_fd.scenes, nm)].view_layers
             on == SelectSeq(ls, LAMBDA l : l.use /\ l.name \notin {"", " "})
         IN  [i \in 1..Len(on) |-> on[i].name]
    ELSE SelectSeq(job_fd.selected_layers, LAMBDA l : l \notin {"", " "})

\* The numeric range the job is to use for target scene nm.
RangeOf(nm) ==
    IF job_fd.selected_scene = ALL_SCENES
    THEN LET sc == job_fd.scenes[SceneIndex(job_fd.scenes, nm)]
         IN  <<sc.frame_start, sc.frame_end, job_fd.frames_per_task, sc.frame_step>>
    ELSE <<job_fd.frame_start, job_fd.frame_end, job_fd.frames_per_task,
           job_fd.frame_step>>

SingleBlockOf(nm) ==
    /\ Len(BlocksFor(nm)) = 1
    /\ (SeqToSet(BlocksFor(nm)[1].layers) \ {""}) \subseteq EnabledIn(nm)

BlockPerLayerOf(nm) ==
    LET eff == EffectiveLayers(nm)
    IN  Len(eff) >= 1 =>
          /\ Len(BlocksFor(nm)) = Len(eff)
          /\ \A i \in 1..Len(eff) :
               /\ BlocksFor(nm)[i].layers = <<eff[i]>>
               /\ BlocksFor(nm)[i].numeric = RangeOf(nm)

\* C9: planning with parallel_mode = False yields exactly one block for
\* every target scene, and the layers of that block are enabled layers of
\* the scene, whether the scene is selected itself or reached through the
\* all-scenes entry.
C9_OneBlockPerScene ==
    (PlannerRan /\ ~job_fd.render_layers_parallel) =>
        \A nm \in TargetScenes : SingleBlockOf(nm)

\* C9 for the jobs whose planning ends without an exception.
C9_OneBlockWherePlanned ==
    (PlannerRan /\ plan_status # "raised" /\ ~job_fd.render_layers_parallel) =>
        \A nm \in TargetScenes : SingleBlockOf(nm)

\* A scene with an enabled and a disabled layer, planned as one block for
\* the enabled layer, alone and under the all-scenes entry.
C9_PlannedAlone ==
    /\ plan_status = "submitted" /\ ~job_fd.render_layers_parallel
    /\ job_fd.selected_scene = SceneNames[1]
    /\ job_fd.scenes[1].view_layers =
         <<RecLayer(LayerNames[1], TRUE), RecLayer(LayerNames[2], FALSE)>>
    /\ Len(job_blocks) = 1
    /\ job_blocks[1].layers = <<LayerNames[1]>>

C9_PlannedUnderAllScenes ==
    /\ plan_status = "submitted" /\ ~job_fd.render_layers_parallel
    /\ job_fd.selected_scene = ALL_SCENES
    /\ job_fd.scenes[2].view_layers =
         <<RecLayer(LayerNames[1], FALSE), RecLayer(LayerNames[2], TRUE)>>
    /\ Len(job_blocks) = 2
    /\ job_blocks[2].layers = <<LayerNames[2]>>

\* C10: planning with parallel_mode = True yields, for a target scene with
\* n >= 1 effective layers, exactly n blocks, one per layer, all with the
\* numeric range (frame_start, frame_end, frames_per_task, frame_step) of
\* that scene.
C10_BlockPerLayer ==
    (PlannerRan /\ job_fd.render_layers_parallel) =>
        \A nm \in TargetScenes : BlockPerLayerOf(nm)

\* C10 for the jobs whose planning ends without an exception.
C10_BlockPerLayerWherePlanned ==
    (PlannerRan /\ plan_status # "raised" /\ job_fd.render_layers_parallel) =>
        \A nm \in TargetScenes : BlockPerLayerOf(nm)

\* Two enabled layers of the selected scene planned as two blocks.
C10_PlannedTwoLayers ==
    /\ plan_status = "submitted" /\ job_fd.render_layers_parallel
    /\ job_fd.selected_scene = SceneNames[1]
    /\ job_fd.selected_layers = <<LayerNames[1], LayerNames[2]>>
    /\ Len(job_blocks) = 2
    /\ job_blocks[1].numeric = job_blocks[2].numeric

\* The planner raised on the plain layer names of the second scene.
PlannerRaisedOnNames ==
    /\ plan_status = "raised"
    /\ job_fd.selected_scene = ALL_SCENES
    /\ job_fd.scenes[1].view_layers = <<>>
    /\ job_fd.scenes[2].view_layers =
         <<StrLayer(LayerNames[1]), StrLayer(LayerNames[2])>>
    /\ job_blocks = <<>>

\* C11: for every target scene the planner emits at least one block, in both
\* layouts; when no selected or enabled layer remains it emits the single
\* unlabeled active-layer unit instead of nothing.
C11_AtLeastOneBlock ==
    PlannerRan => \A nm \in TargetScenes : Len(BlocksFor(nm)) >= 1

\* C11 for the jobs whose planning ends without an exception; a scene
\* without effective layers then has exactly the active-layer unit.
C11_AtLeastOneBlockWherePlanned ==
    (PlannerRan /\ plan_status # "raised") =>
        \A nm \in TargetScenes :
            /\ Len(BlocksFor(nm)) >= 1
            /\ (job_fd.selected_scene = ALL_SCENES /\ EffectiveLayers(nm) = <<>>)
                 => /\ Len(BlocksFor(nm)) = 1
                    /\ BlocksFor(nm)[1].layers = <<"">>

\* A scene whose two layers are both disabled, planned under the all-scenes
\* entry as the active-layer unit.
C11_PlannedActiveLayer ==
    /\ plan_status = "submitted"
    /\ job_fd.selected_scene = ALL_SCENES
    /\ job_fd.scenes[2].view_layers =
         <<RecLayer(LayerNames[1], FALSE), RecLayer(LayerNames[2], FALSE)>>
    /\ BlocksFor(SceneNames[2]) # <<>>
    /\ BlocksFor(SceneNames[2])[1].layers = <<"">>

\* The name the naming policy gives a block of scene_name made for
\* layer_names: the scene name, or "render" for an empty one; plus the
\* layer name when one named layer is split out or stands alone; plus
\* "AllLayers" when several layers are bundled; no suffix for the unlabeled
\* active-layer unit.
PolicyName(scene_name, layer_names) ==
    LET base == IF scene_name # "" THEN scene_name ELSE "render"
    IN  IF layer_names = <<"">> THEN <<base>>
        ELSE IF Len(layer_names) = 1 THEN <<base, "_", layer_names[1]>>
        ELSE <<base, "_", "AllLayers">>

\* The name is the empty string.
EmptyName(nm) == \A i \in 1..Len(nm) : nm[i] = ""

\* C12: every block name follows the naming policy in both layouts: scene
\* name, suffixed with the layer name when a layer is split out or with
\* AllLayers when layers are bundled; no suffix for the unlabeled
\* active-layer unit; "render" for an empty scene name; never an empty name.
C12_NamingPolicy ==
    PlannerRan =>
        \A i \in 1..Len(job_blocks) :
            /\ job_blocks[i].name = PolicyName(job_blocks[i].scene, job_blocks[i].layers)
            /\ ~EmptyName(job_blocks[i].name)

\* C12 for the blocks of the parallel layout.
C12_NamingPolicyParallel ==
    (PlannerRan /\ job_fd.render_layers_parallel) =>
        \A i \in 1..Len(job_blocks) :
            /\ job_blocks[i].name = PolicyName(job_blocks[i].scene, job_blocks[i].layers)
            /\ ~EmptyName(job_blocks[i].name)

\* A file that was never inspected, submitted in the single-block layout:
\* its one block has the empty name.
C12_PlannedEmptyName ==
    /\ plan_status = "submitted"
    /\ ~job_fd.inspected /\ job_fd.selected_scene = ""
    /\ Len(job_blocks) = 1
    /\ job_blocks[1].name = <<"">>

\* A scene without enabled layers under the all-scenes entry, single-block
\* layout: its active-layer unit is named "<scene>_".
C12_PlannedDanglingSuffix ==
    /\ plan_status = "submitted"
    /\ job_fd.selected_scene = ALL_SCENES
    /\ Len(job_blocks) = 2
    /\ job_blocks[1].layers = <<"">>
    /\ job_blocks[1].name = <<SceneNames[1], "_", "">>

\* The layers the blocks of target scene nm stand for, in order: the
\* effective layers, or the unlabeled active-layer unit when there is none.
LayerUnits(nm) ==
    IF EffectiveLayers(nm) = <<>> THEN <<"">> ELSE EffectiveLayers(nm)

\* C13: the blocks of a job are ordered by the file's scene order, then by
\* layer order: every block of an earlier scene precedes every block of a
\* later one, and in parallel mode the i-th block of a scene is the block of
\* its i-th effective layer.
C13_BlockOrder ==
    PlannerRan =>
        /\ job_fd.selected_scene = ALL_SCENES =>
             \A i, j \in 1..Len(job_blocks) :
                 i < j => SceneIndex(job_fd.scenes, job_blocks[i].scene)
                            <= SceneIndex(job_fd.scenes, job_blocks[j].scene)
        /\ job_fd.render_layers_parallel =>
             \A nm \in TargetScenes :
                 \A i \in 1..Len(BlocksFor(nm)) :
                     /\ i <= Len(LayerUnits(nm))
                     /\ BlocksFor(nm)[i].layers = <<LayerUnits(nm)[i]>>

\* Two scenes of two enabled layers each under the all-scenes entry in
\* parallel mode: four blocks, scene by scene and layer by layer.
C13_Witness ==
    /\ plan_status = "submitted"
    /\ job_fd.selected_scene = ALL_SCENES
    /\ job_fd.render_layers_parallel
    /\ Len(job_blocks) = 4
    /\ [i \in 1..4 |-> <<job_blocks[i].scene, job_blocks[i].layers>>] =
         << <<SceneNames[1], <<LayerNames[1]>>>>, <<SceneNames[1], <<LayerNames[2]>>>>,
            <<SceneNames[2], <<LayerNames[1]>>>>, <<SceneNames[2], <<LayerNames[2]>>>> >>

\* ------------------------------------------------------------------------
\* Claims about the override set
\* ------------------------------------------------------------------------

\* The six fields _connect_override_tracking ties to a widget signal.
OverrideFields ==
    { "frame_start", "frame_end", "frame_step", "frames_per_task",
      "output_path", "output_format" }

\* C16: the override set of the file holds nothing but the six overridable
\* fields (frame start, frame end, frame step, frames per task, output
\* path, output format); the scene selection and the layer selection are
\* never in it.
C16_OverrideSetFields ==
    /\ file_data.user_overrides \subseteq OverrideFields
    /\ job_fd.user_overrides \subseteq OverrideFields
    /\ { "selected_scene", "selected_layers" } \cap file_data.user_overrides = {}

\* C16 witness: the user has picked another scene and typed a frames-per-task
\* value, and all six fields are marked.
C16_Witness ==
    /\ has_file_data
    /\ render_tab.has_current
    /\ file_data.user_overrides = OverrideFields
    /\ render_tab.scene_combo # file_data.selected_scene

\* The value the tab shows for an overridable field.
WidgetOf(t, f) ==
    CASE f = "frame_start" -> t.frame_start_spin
      [] f = "frame_end" -> t.frame_end_spin
      [] f = "frame_step" -> t.frame_step_spin
      [] f = "frames_per_task" -> t.fpt_spin
      [] f = "output_path" -> t.output_edit
      [] OTHER -> t.format_combo

\* Every field marked before the step is marked after it and shows the
\* same value.
OverridesKept ==
    \A f \in file_data.user_overrides :
        /\ f \in file_data'.user_overrides
        /\ WidgetOf(render_tab', f) = WidgetOf(render_tab, f)

\* C15: a field in the override set of the file is not overwritten by a
\* later metadata refresh, be it a re-inspection (_on_file_inspected) or a
\* re-population of the tab (_on_file_selected): the value and the mark
\* survive the step.
C15_OverridesSurviveRefresh ==
    [][((OnFileInspected \/ OnFileSelected) /\ app' = "running")
          => OverridesKept]_vars

\* C15 for the re-population alone: populate_from_file skips every marked
\* field.
C15_OverridesSurviveRepopulation ==
    [][(OnFileSelected /\ app' = "running") => OverridesKept]_vars

\* A re-population has run on a file with a marked field.
C15_Repopulated ==
    /\ current_filepath = "F"
    /\ "frames_per_task" \in file_data.user_overrides
    /\ file_data.frames_per_task = render_tab.fpt_spin
    /\ file_data.frames_per_task = MaxEdit

\* ------------------------------------------------------------------------
\* Claims about _submit_selected
\* ------------------------------------------------------------------------

\* job.send was reached for the job: the planner built its blocks and the
\* job went to the farm.
HandedToFarm == plan_status \in {"submitted", "rejected", "send_raised"}

\* C17: a checked file that has no view layer selected and is not set to the
\* all-scenes entry is never handed to the farm: the validation of
\* _submit_selected stops the submission before any job is built.
C17_NoLayerlessJob ==
    HandedToFarm =>
        \/ job_fd.selected_scene = ALL_SCENES
        \/ job_fd.selected_layers # <<>>

\* The validation has stopped a submission of the file.
C17_Blocked ==
    /\ plan_status = "blocked"
    /\ file_data.selected_scene # ALL_SCENES
    /\ file_data.selected_layers = <<>>

\* ------------------------------------------------------------------------
\* blend_parser.resolve_output_path
\* ------------------------------------------------------------------------

\* Paths are sequences of characters; "a" stands for any character of a
\* name.  A directory is the sequence of its components under the root.
MaxPathLen == 5
MaxDirDepth == 2

PathChars == {"/", "a", "."}

PathStrings == UNION { [1..n -> PathChars] : n \in 0..MaxPathLen }

\* Path(filepath).resolve().parent: absolute and normalised.
BaseDirs == UNION { [1..n -> {<<"a">>}] : n \in 0..MaxDirDepth }

\* str.startswith on character sequences.
HasPrefix(str, prefix) ==
    /\ Len(str) >= Len(prefix)
    /\ SubSeq(str, 1, Len(prefix)) = prefix

\* str.split("/") of a character sequence.
RECURSIVE SplitSlash(_)
SplitSlash(str) ==
    IF \A i \in 1..Len(str) : str[i] # "/" THEN <<str>>
    ELSE LET k == CHOOSE i \in 1..Len(str) :
                    str[i] = "/" /\ \A j \in 1..(i - 1) : str[j] # "/"
         IN  <<SubSeq(str, 1, k - 1)>> \o SplitSlash(SubSeq(str, k + 1, Len(str)))

\* The parts PurePosixPath keeps of a string: empty components and "."
\* are dropped.
PathParts(str) ==
    SelectSeq(SplitSlash(str), LAMBDA c : c # <<>> /\ c # <<".">>)

\* The root PurePosixPath finds: "//" for exactly two leading slashes, "/"
\* for one or for three and more, none for a relative path.
PathRoot(str) ==
    IF ~HasPrefix(str, <<"/">>) THEN <<>>
    ELSE IF HasPrefix(str, <<"/", "/">>) /\ ~HasPrefix(str, <<"/", "/", "/">>)
         THEN <<"/", "/">>
         ELSE <<"/">>

\* blend_dir / relative_path: an operand with a root replaces the left side.
PathJoin(dir, str) ==
    IF PathRoot(str) # <<>>
    THEN [root |-> PathRoot(str), parts |-> PathParts(str)]
    ELSE [root |-> <<"/">>, parts |-> dir \o PathParts(str)]

RECURSIVE JoinSlash(_)
JoinSlash(parts) ==
    IF parts = <<>> THEN <<>>
    ELSE IF Len(parts) = 1 THEN parts[1]
    ELSE parts[1] \o <<"/">> \o JoinSlash(Tail(parts))

\* str(path)
PathStr(path) ==
    IF path.root = <<>> /\ path.parts = <<>> THEN <<".">>
    ELSE path.root \o JoinSlash(path.parts)

resolve_output_path(path_str, blend_dir) ==
    IF path_str = <<>> THEN path_str
    ELSE IF HasPrefix(path_str, <<"/", "/">>)
    THEN LET relative_path == SubSeq(path_str, 3, Len(path_str))
         IN  PathStr(PathJoin(blend_dir, relative_path))
    ELSE path_str

PathInit ==
    /\ InspIdle
    /\ UiIdle
    /\ SubIdle
    /\ BeIdle
    /\ FnIdle!1 /\ FnIdle!2
    /\ output_raw \in PathStrings
    /\ base_dir \in BaseDirs
    /\ ExtIdle
    /\ FnIdle!5

\* parse_scene resolves the output path of the scene.
ResolveOutputPath ==
    /\ resolved = NotCalled
    /\ resolved' = resolve_output_path(output_raw, base_dir)
    /\ UNCHANGED <<inspVars, uiVars, extVars, subVars, beVars,
                   plan_fd, plan_runs, output_raw, base_dir>>

PathNext == ResolveOutputPath

SpecPath == PathInit /\ [][PathNext]_vars

\* The components of a path string, as a reader of the path walks them.
Components(str) == SelectSeq(SplitSlash(str), LAMBDA c : c # <<>> /\ c # <<".">>)

\* The path string lies under the directory: it is absolute and its
\* components begin with those of the directory.
Under(str, dir) ==
    /\ HasPrefix(str, <<"/">>)
    /\ Len(Components(str)) >= Len(dir)
    /\ SubSeq(Components(str), 1, Len(dir)) = dir

Remainder == SubSeq(output_raw, 3, Len(output_raw))

\* C20: for a path that starts with the marker "//", resolve_output_path
\* returns the directory joined with the remainder after the marker, a path
\* under the directory; a path without the marker comes back unchanged; the
\* empty path comes back empty.
C20_ResolveOutputPath ==
    resolved # NotCalled =>
        /\ output_raw = <<>> => resolved = <<>>
        /\ ~HasPrefix(output_raw, <<"/", "/">>) => resolved = output_raw
        /\ HasPrefix(output_raw, <<"/", "/">>) =>
              /\ Under(resolved, base_dir)
              /\ Components(resolved) = base_dir \o Components(Remainder)

\* C20 for the paths whose remainder does not begin with another slash.
C20_ResolveRelativeRemainder ==
    (resolved # NotCalled /\ ~HasPrefix(Remainder, <<"/">>)) =>
        /\ output_raw = <<>> => resolved = <<>>
        /\ ~HasPrefix(output_raw, <<"/", "/">>) => resolved = output_raw
        /\ HasPrefix(output_raw, <<"/", "/">>) =>
              /\ Under(resolved, base_dir)
              /\ Components(resolved) = base_dir \o Components(Remainder)

\* The example of the claim: "//a/a" with the directory /a/a gives
\* "/a/a/a/a".
C20_Example ==
    /\ output_raw = <<"/", "/", "a", "/", "a">>
    /\ base_dir = << <<"a">>, <<"a">> >>
    /\ resolved = <<"/", "a", "/", "a", "/", "a", "/", "a">>

\* A marker followed by an absolute remainder has been resolved.
C20_AbsoluteRemainder ==
    /\ output_raw = <<"/", "/", "/", "a">>
    /\ base_dir = << <<"a">> >>
    /\ resolved = <<"/", "a">>

\* ------------------------------------------------------------------------
\* The planner called twice on one input
\* ------------------------------------------------------------------------

MaxRuns == 2

\* The selected_layers lists a tab can hold for a scene: any of the names the
\* scene has, in the order of the list.
LayerChoices(scene) ==
    LET n == Len(scene.view_layers)
    IN  { [i \in 1..Len(q) |-> scene.view_layers[q[i]].name] :
            q \in { r \in SeqsUpTo(1..n, n) :
                      \A i \in 1..(Len(r) - 1) : r[i] < r[i + 1] } }

\* fd is a BlendFileData a job can carry: the dataclass defaults of a file
\* that was never inspected, or an inspected file with a scene entry, a
\* layer selection and a layout picked in the tab.
PlanInput(fd) ==
    \/ fd = DefaultFileData
    \/ \E b \in Blends :
         /\ ~_on_file_inspected_raises(b)
         /\ \E k \in 1..Len(b.scenes), par \in BOOLEAN, fpt \in {1, 3} :
              \E ls \in LayerChoices(b.scenes[k]) :
                fd = [InspectedFileData(b, fpt) EXCEPT
                        !.selected_scene = b.scenes[k].name,
                        !.selected_layers = ls,
                        !.render_layers_parallel = par]
    \/ \E b \in Blends :
         /\ ~_on_file_inspected_raises(b)
         /\ Len(b.scenes) > 1
         /\ \E par \in BOOLEAN :
              fd = [InspectedFileData(b, 3) EXCEPT
                      !.selected_scene = ALL_SCENES,
                      !.render_layers_parallel = par]

ReplanInit ==
    /\ InspIdle
    /\ UiIdle
    /\ SubIdle
    /\ BeIdle
    /\ PlanInput(plan_fd)
    /\ FnIdle!2 /\ FnIdle!3 /\ FnIdle!4 /\ FnIdle!5
    /\ ExtIdle

\* One call of submit_blend_job up to job.send: the blocks it appended, or
\* the exception that left it.
PlanJob ==
    /\ Len(plan_runs) < MaxRuns
    /\ plan_runs' = Append(plan_runs,
                        IF submit_blend_job_raises(plan_fd)
                        THEN [raised |-> TRUE, blocks |-> <<>>]
                        ELSE [raised |-> FALSE, blocks |-> submit_blend_job(plan_fd)])
    /\ UNCHANGED <<inspVars, uiVars, extVars, subVars, beVars,
                   plan_fd, output_raw, base_dir, resolved>>

ReplanNext == PlanJob

SpecReplan == ReplanInit /\ [][ReplanNext]_vars

MaxJobs == 3

\* An inspected file whose second scene lists its layers as plain names,
\* set to the all-scenes entry: the planner raises on it.
PlainLayersFileData ==
    [InspectedFileData([scenes |-> <<PlanScene(1, <<>>),
                                    PlanScene(2, <<StrLayer("L1")>>)>>], 3)
       EXCEPT !.selected_scene = ALL_SCENES]

\* The BlendFileData of the jobs of a batch.
SubmitFileData == { DefaultFileData, PlainLayersFileData }

\* What job.send can do: raise, return nothing, return a result whose
\* first entry is false, or return (True, data) with data a dict that
\* holds "id" or anything else.
JobIds == {"101"}
SendResults ==
    { [kind |-> "raised", id |-> ""], [kind |-> "none", id |-> ""],
      [kind |-> "refused", id |-> ""], [kind |-> "no_id", id |-> ""] }
    \cup { [kind |-> "id", id |-> n] : n \in JobIds }

\* str(e) of the exceptions of the model.
ATTRIBUTE_ERROR == "'str' object has no attribute 'get'"
SEND_ERROR == "str(e) of the exception job.send raised"

\* The message of job_submitted.emit: f"Submitted (ID: {job_id})", or the
\* reason of a failure.
Submitted(n) == [text |-> "Submitted", id |-> n]
Failed(reason) == [text |-> reason, id |-> ""]
REJECTED == "Server rejected job"

\* _submit_selected has built the jobs, disabled the button, reset the
\* counter and started the thread.
SubmitInit ==
    /\ InspIdle
    /\ UiIdle
    /\ jobs \in UNION { [1..n -> SubmitFileData] : n \in 1..MaxJobs }
    /\ spc = "loop"
    /\ SubIdle!3 /\ SubIdle!4 /\ SubIdle!5 /\ SubIdle!6 /\ SubIdle!7
    /\ SubIdle!8 /\ SubIdle!9 /\ SubIdle!10
    /\ submit_btn = FALSE
    /\ BeIdle
    /\ FnIdle
    /\ ExtIdle

\* signal.emit: the emission, queued for its slot.
EmitJobSubmitted(success, message) ==
    LET e == [job |-> sidx, success |-> success, message |-> message]
    IN  /\ job_submitted' = Append(job_submitted, e)
        /\ sig_queue' = Append(sig_queue, [signal |-> "job_submitted", args |-> e])

\* One iteration of run() up to the emission, or up to the writing of the
\* job-id record when the result carries an id.
CallSubmitBlendJob ==
    /\ spc = "loop"
    /\ sidx <= Len(jobs)
    /\ \E r \in IF submit_blend_job_raises(jobs[sidx])
                THEN { [kind |-> "planner_raised", id |-> ""] }
                ELSE SendResults :
         /\ send_results' = Append(send_results, r)
         /\ IF r.kind = "id"
            THEN /\ job_id' = r.id
                 /\ spc' = "write"
                 /\ UNCHANGED <<sidx, job_submitted, sig_queue>>
            ELSE /\ CASE r.kind = "planner_raised" -> EmitJobSubmitted(FALSE, Failed(ATTRIBUTE_ERROR))
                      [] r.kind = "raised" -> EmitJobSubmitted(FALSE, Failed(SEND_ERROR))
                      [] r.kind = "no_id" -> EmitJobSubmitted(TRUE, Submitted(""))
                      [] OTHER -> EmitJobSubmitted(FALSE, Failed(REJECTED))
                 /\ sidx' = sidx + 1
                 /\ UNCHANGED <<job_id, spc>>
    /\ UNCHANGED <<inspVars, uiVars, extVars, beVars, fnVars, jobs, sub_all_done,
                   job_id_files, _submitted_count, submit_btn>>

\* A variant in which an error of the file write reaches the outer handler.
WriteJobIdFile_Uncaught ==
    /\ spc = "write"
    /\ \E written \in BOOLEAN :
         /\ job_id_files' = IF written THEN job_id_files \cup {sidx} ELSE job_id_files
         /\ IF written THEN EmitJobSubmitted(TRUE, Submitted(job_id))
            ELSE EmitJobSubmitted(FALSE, Failed("str(io_err)"))
    /\ job_id' = ""
    /\ sidx' = sidx + 1
    /\ spc' = "loop"
    /\ UNCHANGED <<inspVars, uiVars, extVars, beVars, fnVars, jobs, send_results,
                   sub_all_done, _submitted_count, submit_btn>>

\* The inner try: the job-id record is written, or the write fails and is
\* logged; the emission follows either way.
WriteJobIdFile ==
    /\ spc = "write"
    /\ \E written \in BOOLEAN :
         job_id_files' = IF written THEN job_id_files \cup {sidx} ELSE job_id_files
    /\ EmitJobSubmitted(TRUE, Submitted(job_id))
    /\ job_id' = ""
    /\ sidx' = sidx + 1
    /\ spc' = "loop"
    /\ UNCHANGED <<inspVars, uiVars, extVars, beVars, fnVars, jobs, send_results,
                   sub_all_done, _submitted_count, submit_btn>>

\* self.all_done.emit() after the loop.
EmitAllDone ==
    /\ spc = "loop"
    /\ sidx > Len(jobs)
    /\ spc' = "done"
    /\ sub_all_done' = sub_all_done + 1
    /\ sig_queue' = Append(sig_queue, [signal |-> "all_done", args |-> <<>>])
    /\ UNCHANGED <<inspVars, uiVars, extVars, beVars, fnVars, jobs, sidx, job_id,
                   send_results, job_submitted, job_id_files,
                   _submitted_count, submit_btn>>

\* The main thread runs the slot of the oldest queued signal.
_on_job_submitted ==
    /\ sig_queue # <<>>
    /\ Head(sig_queue).signal = "job_submitted"
    /\ sig_queue' = Tail(sig_queue)
    /\ _submitted_count' = _submitted_count + 1
    /\ UNCHANGED <<inspVars, uiVars, extVars, beVars, fnVars, jobs, spc, sidx, job_id,
                   send_results, job_submitted, sub_all_done, job_id_files,
                   submit_btn>>

_on_submit_done ==
    /\ sig_queue # <<>>
    /\ Head(sig_queue).signal = "all_done"
    /\ sig_queue' = Tail(sig_queue)
    /\ submit_btn' = TRUE
    /\ UNCHANGED <<inspVars, uiVars, extVars, beVars, fnVars, jobs, spc, sidx, job_id,
                   send_results, job_submitted, sub_all_done, job_id_files,
                   _submitted_count>>

SubmitThreadRun == CallSubmitBlendJob \/ WriteJobIdFile \/ EmitAllDone

SubmitNext ==
    \/ CallSubmitBlendJob
    \/ WriteJobIdFile
    \/ EmitAllDone
    \/ _on_job_submitted
    \/ _on_submit_done

SpecSubmit == SubmitInit /\ [][SubmitNext]_vars

\* The thread is scheduled until run() returns, and every call it makes
\* returns or raises.
SpecSubmitLive == SubmitInit /\ [][SubmitNext]_vars /\ WF_vars(SubmitThreadRun)

\* ------------------------------------------------------------------------
\* Claims about SubmitThread.run
\* ------------------------------------------------------------------------

\* The emission that belongs to what submit_blend_job did.
OutcomeOf(r) ==
    CASE r.kind = "id" -> [success |-> TRUE, message |-> Submitted(r.id)]
      [] r.kind = "no_id" -> [success |-> TRUE, message |-> Submitted("")]
      [] r.kind = "planner_raised" -> [success |-> FALSE, message |-> Failed(ATTRIBUTE_ERROR)]
      [] r.kind = "raised" -> [success |-> FALSE, message |-> Failed(SEND_ERROR)]
      [] OTHER -> [success |-> FALSE, message |-> Failed(REJECTED)]

\* The job_submitted signals whose slot has not run yet.
QueuedOutcomes == SelectSeq(sig_queue, LAMBDA g : g.signal = "job_submitted")

C18_State ==
    /\ Len(job_submitted) = sidx - 1
    /\ sidx <= Len(jobs) + 1
    /\ \A k \in 1..Len(job_submitted) :
          /\ job_submitted[k].job = k
          /\ job_submitted[k].success = OutcomeOf(send_results[k]).success
          /\ job_submitted[k].message = OutcomeOf(send_results[k]).message
          /\ job_submitted[k].message.text # ""
    /\ job_id_files \subseteq { k \in 1..Len(send_results) : send_results[k].kind = "id" }
    /\ sub_all_done = (IF spc = "done" THEN 1 ELSE 0)
    /\ spc = "done" => Len(job_submitted) = Len(jobs)
    /\ _submitted_count + Len(QueuedOutcomes) = Len(job_submitted)
    /\ submit_btn => (spc = "done" /\ _submitted_count = Len(jobs))

\* No step takes back or changes an emission.
C18_Step ==
    /\ Len(job_submitted') >= Len(job_submitted)
    /\ SubSeq(job_submitted', 1, Len(job_submitted)) = job_submitted
    /\ sub_all_done' >= sub_all_done

\* C18: in a batch every job yields exactly one job_submitted emission, a
\* success with the id job.send returned or a failure with a reason; a
\* rejected or raising job does not end the batch and leaves the earlier
\* emissions as they are; a failed write of the job-id record leaves the
\* success a success; all_done is emitted once, after the last job.
C18_BatchOutcomes ==
    /\ []C18_State
    /\ [][C18_Step]_vars
    /\ <>(spc = "done" /\ sub_all_done = 1 /\ Len(job_submitted) = Len(jobs))

\* C18 witness: a batch of MaxJobs jobs is done: the planner raised on the
\* first, the second was submitted with an id whose record could not be
\* written, the farm refused the last, and every slot has run.
C18_Witness ==
    /\ spc = "done"
    /\ Len(jobs) = MaxJobs
    /\ send_results[1].kind = "planner_raised"
    /\ send_results[2].kind = "id"
    /\ 2 \notin job_id_files
    /\ job_submitted[2].success
    /\ send_results[MaxJobs].kind = "refused"
    /\ ~job_submitted[MaxJobs].success
    /\ sig_queue = <<>>
    /\ _submitted_count = MaxJobs

\* ------------------------------------------------------------------------
\* Backend.submit_jobs and Backend.cancel_submission
\* ------------------------------------------------------------------------

MaxFiles == 2

\* A call of submit_jobs is between its first statement and its return.
Running == bpc \notin {"idle", "returned"}

\* The Backend after __init__; the front end is about to call submit_jobs
\* with a list of files.
BackendInit ==
    /\ InspIdle
    /\ UiIdle
    /\ SubIdle
    /\ BeIdle!1 /\ BeIdle!2 /\ BeIdle!3
    /\ files \in 0..MaxFiles
    /\ BeIdle!5 /\ BeIdle!6 /\ BeIdle!7 /\ BeIdle!8 /\ BeIdle!9
    /\ FnIdle
    /\ ExtIdle

\* submit_jobs, line 191: self.status = "submitting"
BeginSubmitJobs ==
    /\ bpc = "idle"
    /\ status' = "submitting"
    /\ bpc' = "clear"
    /\ UNCHANGED <<inspVars, uiVars, extVars, subVars, fnVars, cancel_flag, files,
                   bidx, results, cpc, cancel_requested, started_after>>

\* line 192: self.cancel_flag.clear()
ClearCancelFlag ==
    /\ bpc = "clear"
    /\ cancel_flag' = FALSE
    /\ bpc' = "script"
    /\ UNCHANGED <<inspVars, uiVars, extVars, subVars, fnVars, status, files, bidx,
                   results, cpc, cancel_requested, started_after>>

\* lines 193-216: the script is taken from the config or read from the
\* packaged file; without a script the call returns its error result.
ResolveScript ==
    /\ bpc = "script"
    /\ \E script_content \in BOOLEAN :
         bpc' = IF script_content THEN "loop" ELSE "returned"
    /\ UNCHANGED <<inspVars, uiVars, extVars, subVars, fnVars, status, cancel_flag,
                   files, bidx, results, cpc, cancel_requested, started_after>>

\* The head of the loop with the test of the flag, as one step: the loop
\* ends, or breaks, or the next file is taken.
NextFile ==
    /\ bpc = "loop"
    /\ IF bidx > files \/ cancel_flag
       THEN bpc' = "end" /\ UNCHANGED started_after
       ELSE /\ bpc' = "job"
            /\ started_after' = IF cancel_requested
                                 THEN started_after \cup {bidx}
                                 ELSE started_after
    /\ UNCHANGED <<inspVars, uiVars, extVars, subVars, fnVars, status, cancel_flag,
                   files, bidx, results, cpc, cancel_requested>>

\* lines 221-242: Blender runs on the file (300 s at most) and a result
\* is appended, or an exception is caught and an error entry is appended.
RunBlender ==
    /\ bpc = "job"
    /\ \E entry \in {"returncode", "error"} :
         results' = Append(results, [file |-> bidx, entry |-> entry])
    /\ bidx' = bidx + 1
    /\ bpc' = "loop"
    /\ UNCHANGED <<inspVars, uiVars, extVars, subVars, fnVars, status, cancel_flag,
                   files, cpc, cancel_requested, started_after>>

\* lines 243-245: self.status = "idle" and the return.
EndSubmitJobs ==
    /\ bpc = "end"
    /\ status' = "idle"
    /\ bpc' = "returned"
    /\ UNCHANGED <<inspVars, uiVars, extVars, subVars, fnVars, cancel_flag, files,
                   bidx, results, cpc, cancel_requested, started_after>>

\* cancel_submission, line 248, on the thread of another API call.
CancelSetFlag ==
    /\ cpc = "idle"
    /\ cancel_flag' = TRUE
    /\ cpc' = "status"
    /\ cancel_requested' = (cancel_requested \/ Running)
    /\ UNCHANGED <<inspVars, uiVars, extVars, subVars, fnVars, status, bpc, files,
                   bidx, results, started_after>>

\* cancel_submission, lines 249-252.
CancelSetStatus ==
    /\ cpc = "status"
    /\ status' = "cancelled"
    /\ cpc' = "idle"
    /\ UNCHANGED <<inspVars, uiVars, extVars, subVars, fnVars, cancel_flag, bpc,
                   files, bidx, results, cancel_requested, started_after>>

submit_jobs ==
    \/ BeginSubmitJobs
    \/ ClearCancelFlag
    \/ ResolveScript
    \/ NextFile
    \/ RunBlender
    \/ EndSubmitJobs

cancel_submission == CancelSetFlag \/ CancelSetStatus

BackendNext ==
    \/ BeginSubmitJobs
    \/ ClearCancelFlag
    \/ ResolveScript
    \/ NextFile
    \/ RunBlender
    \/ EndSubmitJobs
    \/ CancelSetFlag
    \/ CancelSetStatus

SpecBackend == BackendInit /\ [][BackendNext]_vars

\* The thread of the call is scheduled until the call returns.
SpecBackendLive == BackendInit /\ [][BackendNext]_vars /\ WF_vars(submit_jobs)

\* ------------------------------------------------------------------------
\* Claims about stopping a farm submission run
\* ------------------------------------------------------------------------

\* C19: a submission run can be asked to stop between jobs: once the stop
\* was requested during the run no further job is started, and the run
\* ends in its terminal state, a returned result with the status no longer
\* "submitting".
C19_StopBetweenJobs ==
    /\ started_after = {}
    /\ bpc = "returned" => status # "submitting"

\* The part of C19 that holds with the thread of the call scheduled
\* fairly: every call of submit_jobs returns.
C19_RunReturns == <>(bpc = "returned")

\* A request made between lines 191 and 192 was wiped out, and every file
\* was run after it.
C19_LostRequest ==
    /\ bpc = "returned"
    /\ cancel_requested
    /\ started_after = 1..MaxFiles

\* The call returned without a script and left the status as it was.
C19_StuckStatus == bpc = "returned" /\ status = "submitting" /\ ~cancel_requested

\* ------------------------------------------------------------------------
\* Claims about what adds to the override set
\* ------------------------------------------------------------------------

\* The fields the step adds to the override set of the file.
NewOverrides == file_data'.user_overrides \ file_data.user_overrides

\* C29: a field enters the override set only in a manual edit of that very
\* field; populating the tab, switching the scene and resetting add nothing,
\* and after a reset the set is empty.
C29_OnlyManualEdits ==
    [][/\ NewOverrides # {} => (EditSpin /\ NewOverrides = {"frames_per_task"})
       /\ (ResetOverrides /\ app' = "running") => file_data'.user_overrides = {}]_vars

\* The part of C29 that holds: populating the tab (after a selection or an
\* inspection) and resetting add nothing, and a reset empties the set.
C29_PopulateAndResetAddNothing ==
    [][/\ (OnFileSelected \/ OnFileInspected \/ OnFileInspectedError \/ ResetOverrides)
            => NewOverrides = {}
       /\ (ResetOverrides /\ app' = "running") => file_data'.user_overrides = {}]_vars

\* The user switched the scene and typed nothing, and fields are marked.
C29_MarkedBySceneSwitch ==
    /\ render_tab.has_current
    /\ render_tab.fpt_spin = InitialTab.fpt_spin
    /\ "frame_start" \in file_data.user_overrides

\* ------------------------------------------------------------------------
\* Displayed task count against the job's tasks
\* ------------------------------------------------------------------------

\* The tasks of one block: ceil(frames / frames_per_task) for its numeric
\* range (start, end, frames_per_task, step).
BlockTasks(b) ==
    LET frames == total_frames(b.numeric[1], b.numeric[2], b.numeric[4])
    IN  IF b.numeric[3] > 0 /\ frames > 0 THEN ceil_div(frames, b.numeric[3])
        ELSE 0

\* The tasks of the blocks blocks[k..].
RECURSIVE JobTasks(_, _)
JobTasks(blocks, k) ==
    IF k > Len(blocks) THEN 0
    ELSE BlockTasks(blocks[k]) + JobTasks(blocks, k + 1)

\* The tab shows the file with the selections the job was planned from.
ShowsJobSelections ==
    /\ HandedToFarm
    /\ current_filepath = "F"
    /\ render_tab.has_current
    /\ apply_to_file_data(render_tab, job_fd) = job_fd

\* C30: the total task count displayed for a file equals the number of
\* tasks of the job planned from the same selections, the sum over the
\* job's blocks of ceil(frames / frames_per_task), for a single scene and
\* for the all-scenes entry, in the parallel and the single-block layout.
C30_DisplayedTasksMatchJob ==
    ShowsJobSelections =>
        /\ render_tab.total_tasks_label.shown
        /\ render_tab.total_tasks_label.n = JobTasks(job_blocks, 1)

\* The part of C30 that holds: the counts agree when the job has one block
\* per scene.
C30_DisplayedTasksMatchSingleBlock ==
    (ShowsJobSelections /\ ~job_fd.render_layers_parallel) =>
        /\ render_tab.total_tasks_label.shown
        /\ render_tab.total_tasks_label.n = JobTasks(job_blocks, 1)

\* A job of two blocks for one scene is shown with the tasks of one.
C30_ParallelUndercount ==
    /\ ShowsJobSelections
    /\ job_fd.render_layers_parallel
    /\ Len(job_blocks) = 2
    /\ render_tab.total_tasks_label.n = BlockTasks(job_blocks[1])
    /\ render_tab.total_tasks_label.n > 0


\* ------------------------------------------------------------------------
\* The two forms of a view-layer list
\* ------------------------------------------------------------------------

\* The metadata md with every layer written as a {name, enabled} record
\* that is enabled.
AsRecords(md) ==
    [scenes |-> [i \in 1..Len(md.scenes) |->
        [md.scenes[i] EXCEPT !.view_layers =
            [k \in 1..Len(md.scenes[i].view_layers) |->
                RecLayer(md.scenes[i].view_layers[k].name, TRUE)]]]]

\* The metadata holds plain names only, as parse_blend and the inspector
\* script write them, and at least one of them.
PlainNames(md) ==
    /\ \A i \in 1..Len(md.scenes) : \A k \in 1..Len(md.scenes[i].view_layers) :
            md.scenes[i].view_layers[k].form = "str"
    /\ \E i \in 1..Len(md.scenes) : md.scenes[i].view_layers # <<>>

\* C27: a layer list of plain names and the same list as {name, enabled}
\* records with every layer enabled are both accepted by _on_file_inspected
\* and by the planner without error, and give the same effective layer list
\* and the same blocks.
C27_EquivalentLayerForms ==
    [][(InspectionEvent /\ PlainNames(blend) /\ (OnFileInspected \/ app' # app)) =>
          LET rec == InspectedFileData(AsRecords(blend), render_tab.fpt_spin)
          IN  /\ app' = "running"
              /\ file_data'.selected_layers = rec.selected_layers
              /\ \A sel \in {"first", "all"} :
                   LET a == IF sel = "all"
                            THEN [file_data' EXCEPT !.selected_scene = ALL_SCENES]
                            ELSE file_data'
                       b == IF sel = "all"
                            THEN [rec EXCEPT !.selected_scene = ALL_SCENES]
                            ELSE rec
                   IN  /\ ~submit_blend_job_raises(a)
                       /\ ~submit_blend_job_raises(b)
                       /\ submit_blend_job(a) = submit_blend_job(b)]_vars

\* The part of C27 that holds: metadata whose layers are all records is
\* ingested and planned without an exception.
C27_RecordsAccepted ==
    (\A i \in 1..Len(blend.scenes) : ~LayerGetRaises(blend.scenes[i].view_layers))
        => (app = "running" /\ plan_status # "raised")

\* The ingestion of plain names has ended the process.
C27_PlainNamesAbort ==
    /\ PlainNames(blend)
    /\ app = "aborted"
    /\ ~has_file_data

\* The planner has raised on plain names of a later scene.
C27_PlainNamesRaise ==
    /\ PlainNames(blend)
    /\ app = "running"
    /\ plan_status = "raised"
    /\ job_fd.selected_scene = ALL_SCENES


\* ------------------------------------------------------------------------
\* MainWindow: the inspect controls and the InspectorThreads they start
\* ------------------------------------------------------------------------

NumRows    == 2
MaxThreads == 3

\* The rows of the file panel, and the paths of a set of rows in row order.
Rows == 1..NumRows
Filepaths(rows) == SelectSeq([i \in Rows |-> i], LAMBDA f : f \in rows)

\* InspectorThread.isRunning(), for the k-th thread that was started.
IsRunning(k) == ~threads[k].ended

\* The threads whose run() has not ended.
RunningThreads == { k \in 1..Len(threads) : IsRunning(k) }

\* The main window after a scan of NumRows files, every row checked, with a
\* Blender path set.
ControlInit ==
    /\ InspIdle
    /\ UiIdle
    /\ SubIdle
    /\ BeIdle
    /\ FnIdle
    /\ PrsIdle
    /\ CtlIdle!1 /\ CtlIdle!2
    /\ checked = Rows
    /\ CtlIdle!4 /\ CtlIdle!5

\* _run_inspection(files): both buttons are disabled and a new
\* InspectorThread replaces the one self.inspector_thread referred to.
_run_inspection(rows) ==
    /\ Len(threads) < MaxThreads
    /\ inspect_selected_btn' = FALSE
    /\ inspect_all_btn' = FALSE
    /\ threads' = Append(threads, [files |-> Filepaths(rows), done |-> 0,
                                   ended |-> FALSE])
    /\ UNCHANGED <<inspVars, uiVars, subVars, beVars, fnVars, prsVars,
                   checked, done_queue>>

\* The user checks or unchecks a row.
ToggleRow ==
    /\ app = "running"
    /\ \E f \in Rows :
         checked' = IF f \in checked THEN checked \ {f} ELSE checked \cup {f}
    /\ UNCHANGED <<inspVars, uiVars, subVars, beVars, fnVars, prsVars,
                   inspect_selected_btn, inspect_all_btn, threads, done_queue>>

\* A click on "Inspect Selected": _inspect_selected with a row checked.
ClickInspectSelected ==
    /\ app = "running"
    /\ inspect_selected_btn
    /\ checked # {}
    /\ _run_inspection(checked)

\* A click on "Inspect All": _inspect_all.
ClickInspectAll ==
    /\ app = "running"
    /\ inspect_all_btn
    /\ _run_inspection(Rows)

\* Ctrl+I: the QShortcut of the window calls _inspect_selected, whatever
\* the state of the buttons.
ShortcutInspect ==
    /\ app = "running"
    /\ checked # {}
    /\ _run_inspection(checked)

\* One iteration of run() of the k-th thread: the next file is inspected.
InspectNextFile ==
    /\ app = "running"
    /\ \E k \in RunningThreads :
         /\ threads[k].done < Len(threads[k].files)
         /\ threads' = [threads EXCEPT ![k].done = @ + 1]
    /\ UNCHANGED <<inspVars, uiVars, subVars, beVars, fnVars, prsVars,
                   inspect_selected_btn, inspect_all_btn, checked, done_queue>>

\* The end of run() of the k-th thread: all_done is emitted.
EmitInspectDone ==
    /\ app = "running"
    /\ \E k \in RunningThreads :
         /\ threads[k].done = Len(threads[k].files)
         /\ threads' = [threads EXCEPT ![k].ended = TRUE]
    /\ done_queue' = done_queue + 1
    /\ UNCHANGED <<inspVars, uiVars, subVars, beVars, fnVars, prsVars,
                   inspect_selected_btn, inspect_all_btn, checked>>

\* A running thread that self.inspector_thread no longer refers to: when
\* its wrapper is collected Qt ends the process ("QThread: Destroyed while
\* thread is still running"); otherwise it runs to its end.
DestroyedWhileRunning ==
    /\ app = "running"
    /\ \E k \in RunningThreads : k < Len(threads)
    /\ app' = "aborted"
    /\ UNCHANGED <<inspVars, auxVars, blend, has_file_data, file_data,
                   current_filepath, render_tab, submit_pending, job_fd,
                   plan_status, job_blocks>>

\* _on_inspect_done: both buttons are enabled again.
_on_inspect_done ==
    /\ app = "running"
    /\ done_queue > 0
    /\ done_queue' = done_queue - 1
    /\ inspect_selected_btn' = TRUE
    /\ inspect_all_btn' = TRUE
    /\ UNCHANGED <<inspVars, uiVars, subVars, beVars, fnVars, prsVars,
                   checked, threads>>

ControlNext ==
    \/ ToggleRow
    \/ ClickInspectSelected
    \/ ClickInspectAll
    \/ ShortcutInspect
    \/ InspectNextFile
    \/ EmitInspectDone
    \/ DestroyedWhileRunning
    \/ _on_inspect_done

SpecControl == ControlInit /\ [][ControlNext]_vars

\* C28: at most one extraction batch runs at any time, so no file is under
\* two extraction passes in parallel, and the inspect controls are enabled
\* only when no batch is running.
C28_OneBatchAtATime ==
    /\ Cardinality(RunningThreads) <= 1
    /\ (inspect_selected_btn \/ inspect_all_btn) => RunningThreads = {}

\* Two threads are inspecting the same file at the same time.
C28_SameFileTwice ==
    \E j, k \in RunningThreads :
        /\ j < k
        /\ threads[j].done < Len(threads[j].files)
        /\ threads[k].done < Len(threads[k].files)
        /\ threads[j].files[threads[j].done + 1] = threads[k].files[threads[k].done + 1]


\* ------------------------------------------------------------------------
\* blend_parser: the fields of a block, get_name, get_view_layers,
\* parse_scene
\* ------------------------------------------------------------------------

MaxBlocks == 2
MaxCode   == 29

\* A bytes value is a sequence of chunks: a run of text, a byte that is not
\* valid UTF-8, or a NUL byte.  The two-byte type code of an ID name is one
\* chunk.
INVALID_BYTE == "0xFF"
NUL_BYTE     == "0x00"

\* bytes.decode('utf-8', errors='ignore')
decode(b) == SelectSeq(b, LAMBDA c : c # INVALID_BYTE)

\* str.rstrip('\x00')
RECURSIVE rstrip(_)
rstrip(str) ==
    IF str # <<>> /\ str[Len(str)] = NUL_BYTE
    THEN rstrip(SubSeq(str, 1, Len(str) - 1))
    ELSE str

\* The str of a decoded value: the values of the model hold at most one
\* run of text.
Text(str) == IF str = <<>> THEN "" ELSE str[1]

\* block.get(path, default) for a path the block lacks.
BlockGet(block, key, default) ==
    IF key \in block.absent THEN default ELSE block[key]

IMAGE_FORMAT_MAP ==
    1 :> "IRIS" @@ 2 :> "JPEG" @@ 3 :> "MOVIE" @@ 4 :> "IRIZ" @@ 7 :> "RAWTGA" @@
    14 :> "PNG" @@ 15 :> "BMP" @@ 17 :> "TIFF" @@ 18 :> "OPEN_EXR" @@
    19 :> "FFMPEG" @@ 20 :> "FRAMESERVER" @@ 21 :> "CINEON" @@
    22 :> "OPEN_EXR_MULTILAYER" @@ 23 :> "DPX" @@ 24 :> "DDS" @@ 25 :> "JP2" @@
    26 :> "WEBP" @@ 28 :> "AVI_JPEG"

\* A lookup that answers the default label for a code outside the table.
FormatLabel_Default(format_int) ==
    IF format_int \in DOMAIN IMAGE_FORMAT_MAP THEN IMAGE_FORMAT_MAP[format_int]
    ELSE IMAGE_FORMAT_MAP[14]

\* IMAGE_FORMAT_MAP.get(format_int, f'UNKNOWN_{format_int}')
FormatLabel(format_int) ==
    IF format_int \in DOMAIN IMAGE_FORMAT_MAP THEN IMAGE_FORMAT_MAP[format_int]
    ELSE "UNKNOWN_" \o ToString(format_int)

\* get_name: the name after the two-byte type code, or "Unknown" when the
\* field is missing, empty, or its read raises.
get_name(block) ==
    IF \/ block.raises = "id_name"
       \/ "id_name" \in block.absent
       \/ block.id_name = <<>>
    THEN "Unknown"
    ELSE LET name == Text(rstrip(decode(Tail(block.id_name))))
         IN  IF name # "" THEN name ELSE "Unknown"

\* The loop of get_view_layers over the raw names raw[k..]: empty names and
\* names already seen are skipped.
RECURSIVE ViewLayerNames(_, _, _)
ViewLayerNames(raw, k, seen) ==
    IF k > Len(raw) THEN <<>>
    ELSE LET layer_name == Text(rstrip(decode(raw[k])))
         IN  IF layer_name # "" /\ layer_name \notin seen
             THEN <<layer_name>> \o ViewLayerNames(raw, k + 1, seen \cup {layer_name})
             ELSE ViewLayerNames(raw, k + 1, seen)

\* get_view_layers: no list when the first pointer is missing or its read
\* raises.
get_view_layers(scene_block) ==
    IF "view_layers" \in scene_block.absent \/ scene_block.raises = "view_layers"
    THEN <<>>
    ELSE ViewLayerNames(scene_block.view_layers, 1, {})

\* The keys of scene_data in the order parse_scene assigns them, and the
\* field of the block each one is read from.
FieldOrder ==
    << "name", "frame_start", "frame_end", "frame_step", "output_path",
       "view_layers", "render_engine", "use_nodes", "resolution_x",
       "resolution_y", "output_format" >>

FieldRead ==
    << "id_name", "sfra", "efra", "frame_step", "pic", "view_layers",
       "engine", "use_nodes", "xsch", "ysch", "imtype" >>

\* The reads of parse_scene that are not inside a try of their own.
UnguardedReads == SeqToSet(FieldRead) \ {"id_name", "view_layers"}

\* The number of keys parse_scene assigns before the read that raises.
AssignedBefore(scene_block) ==
    IF scene_block.raises \in UnguardedReads
    THEN (CHOOSE i \in 1..Len(FieldRead) : FieldRead[i] = scene_block.raises) - 1
    ELSE Len(FieldOrder)

\* parse_scene: scene_data as the record of the keys that were assigned.
parse_scene(scene_block, blend_dir) ==
    LET n == AssignedBefore(scene_block)
        value(key) ==
            CASE key = "name" -> get_name(scene_block)
              [] key = "frame_start" -> BlockGet(scene_block, "sfra", 1)
              [] key = "frame_end" -> BlockGet(scene_block, "efra", 250)
              [] key = "frame_step" -> BlockGet(scene_block, "frame_step", 1)
              [] key = "output_path" ->
                   Text(resolve_output_path(
                          rstrip(decode(BlockGet(scene_block, "pic", <<>>))),
                          blend_dir))
              [] key = "view_layers" -> get_view_layers(scene_block)
              [] key = "render_engine" ->
                   LET engine_str == Text(rstrip(decode(
                                       BlockGet(scene_block, "engine", <<>>))))
                   IN  IF engine_str # "" THEN engine_str ELSE "BLENDER_EEVEE"
              [] key = "use_nodes" -> BlockGet(scene_block, "use_nodes", 0) # 0
              [] key = "resolution_x" -> BlockGet(scene_block, "xsch", 1920)
              [] key = "resolution_y" -> BlockGet(scene_block, "ysch", 1080)
              [] key = "output_format" ->
                   FormatLabel(BlockGet(scene_block, "imtype", 14))
              [] key = "parse_error" -> "read of " \o scene_block.raises \o " failed"
    IN  [ key \in { FieldOrder[i] : i \in 1..n }
                  \cup (IF n < Len(FieldOrder) THEN {"parse_error"} ELSE {})
          |-> value(key) ]

\* get_active_scene_name: the name of the scene the first window of the
\* first window manager points to; every missing link and every exception
\* gives None.
get_active_scene_name(wm) ==
    IF wm.kind = "scene" THEN [none |-> FALSE, name |-> get_name(wm.scene)]
    ELSE [none |-> TRUE, name |-> ""]

\* A parse_blend that reports a file without scene blocks as an error.
parse_blend_metadata_NoScenesError(wm, scene_list) ==
    IF scene_list = <<>> THEN [error |-> "No scenes found"]
    ELSE [scenes |-> scene_list]

\* The metadata dict parse_blend returns.
parse_blend_metadata(wm, scene_list) ==
    LET active_scene == get_active_scene_name(wm)
    IN  IF ~active_scene.none /\ active_scene.name # ""
        THEN [scenes |-> scene_list, active_scene |-> active_scene.name]
        ELSE [scenes |-> scene_list]

\* ------------------------------------------------------------------------
\* blend_parser: parse_blend on the blocks of one file
\* ------------------------------------------------------------------------

\* A scene block: its fields, the fields it lacks, and the field whose read
\* raises ("none" when no read does).
SceneBlock(id_name, view_layers, imtype, absent, raises) ==
    [ id_name |-> id_name, sfra |-> 2, efra |-> 5, frame_step |-> 1,
      pic |-> <<"/out/a">>, view_layers |-> view_layers, engine |-> <<"CYCLES">>,
      use_nodes |-> 1, xsch |-> 640, ysch |-> 480, imtype |-> imtype,
      absent |-> absent, raises |-> raises ]

\* ID names: two scenes, a name that differs from the first by a byte that
\* does not decode, and an empty name.
IdNames ==
    { <<"SC", "SceneA">>, <<"SC", "SceneB">>,
      <<"SC", "SceneA", INVALID_BYTE>>, <<"SC", NUL_BYTE>> }

\* Raw view-layer names of a scene.
RawLayers == { <<>>, << <<"L1", NUL_BYTE>>, <<"L1">>, <<NUL_BYTE>> >> }

\* The scene blocks the parser is run on: every combination of name, layer
\* list, missing fields and failing read with one format code, and one
\* plain block for every format code 0..MaxCode.
BlockInputs ==
    { SceneBlock(id, layers, 18, absent, raises) :
        id \in IdNames, layers \in RawLayers,
        absent \in { {}, {"id_name", "sfra", "imtype", "engine"} },
        raises \in {"none", "id_name", "efra", "imtype"} }
    \cup { SceneBlock(<<"SC", "SceneA">>, <<>>, code, {}, "none") :
             code \in 0..MaxCode }

\* A scene linked from a library: the block the window points to is a
\* placeholder that find_blocks_from_code(b'SC') does not return.
LinkedScene == SceneBlock(<<"SC", "Linked">>, <<>>, 18, {}, "none")

\* What the chain window manager -> first window -> scene leads to.
WmChains(blocks) ==
    { [kind |-> k] : k \in {"no_wm", "no_window", "no_scene", "raises"} }
    \cup { [kind |-> "scene", scene |-> blocks[i]] : i \in 1..Len(blocks) }
    \cup { [kind |-> "scene", scene |-> LinkedScene] }

\* parse_blend has opened the file and is about to walk its scene blocks.
ParseInit ==
    /\ InspIdle
    /\ UiIdle
    /\ SubIdle
    /\ BeIdle
    /\ FnIdle
    /\ \E n \in 0..MaxBlocks : scene_blocks \in [1..n -> BlockInputs]
    /\ wm_chain \in WmChains(scene_blocks)
    /\ PrsIdle!3 /\ PrsIdle!4
    /\ ppc = "loop"
    /\ CtlIdle

\* One iteration of the loop of parse_blend: scenes.append(parse_scene(...)).
ParseScene ==
    /\ app = "running"
    /\ ppc = "loop"
    /\ Len(parsed_scenes) < Len(scene_blocks)
    /\ parsed_scenes' = Append(parsed_scenes,
                               parse_scene(scene_blocks[Len(parsed_scenes) + 1],
                                           <<"d">>))
    /\ UNCHANGED <<inspVars, uiVars, subVars, beVars, fnVars, ctlVars,
                   scene_blocks, wm_chain, metadata, ppc>>

\* The end of parse_blend: the metadata dict is built and returned.
ReturnMetadata ==
    /\ app = "running"
    /\ ppc = "loop"
    /\ Len(parsed_scenes) = Len(scene_blocks)
    /\ metadata' = parse_blend_metadata(wm_chain, parsed_scenes)
    /\ ppc' = "returned"
    /\ UNCHANGED <<inspVars, uiVars, subVars, beVars, fnVars, ctlVars,
                   scene_blocks, wm_chain, parsed_scenes>>

ParseNext ==
    \/ ParseScene
    \/ ReturnMetadata

SpecParse == ParseInit /\ [][ParseNext]_vars

\* parse_blend has returned the metadata of the file.
Returned == ppc = "returned"

\* The keys of a SceneRecord.
SceneKeys == SeqToSet(FieldOrder)

\* C21: a scene whose reads all succeed yields a record with every key and
\* no parse_error, whose output_format is the table label of its format
\* code, 'UNKNOWN_<n>' for a code n outside the table, and the default
\* label (PNG, code 14) when the block holds no code.
C21_FormatLabels ==
    Returned =>
        \A i \in 1..Len(scene_blocks) :
            LET b == scene_blocks[i]
                r == metadata.scenes[i]
            IN  b.raises \notin UnguardedReads =>
                  /\ DOMAIN r = SceneKeys
                  /\ "imtype" \in b.absent => r.output_format = "PNG"
                  /\ ("imtype" \notin b.absent /\ b.imtype \in DOMAIN IMAGE_FORMAT_MAP)
                        => r.output_format = IMAGE_FORMAT_MAP[b.imtype]
                  /\ ("imtype" \notin b.absent /\ b.imtype \notin DOMAIN IMAGE_FORMAT_MAP)
                        => r.output_format = "UNKNOWN_" \o ToString(b.imtype)

\* A file was parsed that holds a code outside the table, a code of the
\* table and a block without a code.
C21_Witness ==
    /\ Returned
    /\ Len(metadata.scenes) = 2
    /\ metadata.scenes[1].output_format = "UNKNOWN_5"
    /\ "parse_error" \notin DOMAIN metadata.scenes[1]
    /\ scene_blocks[2].imtype = 18
    /\ "imtype" \in scene_blocks[2].absent
    /\ scene_blocks[2].raises = "none"
    /\ metadata.scenes[2].output_format = "PNG"


\* The read of the i-th scene block raised inside parse_scene.
ReadRaised(i) == scene_blocks[i].raises \in UnguardedReads

\* C23: when the read of one field of a scene block raises, parse_scene
\* still returns a record for the scene, with parse_error set and every
\* other key of the data model present, and the scene stays in the list.
C23_EveryOtherFieldPresent ==
    Returned =>
        /\ Len(metadata.scenes) = Len(scene_blocks)
        /\ \A i \in 1..Len(scene_blocks) :
             ReadRaised(i) =>
               /\ "parse_error" \in DOMAIN metadata.scenes[i]
               /\ metadata.scenes[i].parse_error # ""
               /\ SceneKeys \ {FieldOrder[AssignedBefore(scene_blocks[i]) + 1]}
                    \subseteq DOMAIN metadata.scenes[i]

\* The part of C23 that holds: the failure stays inside parse_scene, the
\* scene stays in the list with parse_error set, and the keys assigned
\* before the failing read are present.
C23_ErrorStaysInScene ==
    Returned =>
        /\ Len(metadata.scenes) = Len(scene_blocks)
        /\ \A i \in 1..Len(scene_blocks) :
             /\ ReadRaised(i) <=> "parse_error" \in DOMAIN metadata.scenes[i]
             /\ ReadRaised(i) =>
                  /\ metadata.scenes[i].parse_error # ""
                  /\ DOMAIN metadata.scenes[i] =
                       { FieldOrder[k] : k \in 1..AssignedBefore(scene_blocks[i]) }
                       \cup {"parse_error"}

\* A scene whose frame_end could not be read has a name, a frame_start and
\* a parse_error, and nothing else.
C23_FieldsAfterFailureLost ==
    /\ Returned
    /\ Len(scene_blocks) = 1
    /\ scene_blocks[1].raises = "efra"
    /\ DOMAIN metadata.scenes[1] = {"name", "frame_start", "parse_error"}

\* The names of the scenes of the metadata, in order.
SceneNameList == [i \in 1..Len(metadata.scenes) |-> metadata.scenes[i].name]

\* C25: in the metadata parse_blend returns, scene names are non-empty and
\* pairwise distinct and the scenes are in block-table order: of several
\* scene blocks with the same decoded name only the first is kept.
C25_DistinctNames ==
    Returned =>
        /\ \A i \in 1..Len(SceneNameList) : SceneNameList[i] # ""
        /\ \A i, j \in 1..Len(SceneNameList) :
             i # j => SceneNameList[i] # SceneNameList[j]
        /\ \A i \in 1..Len(SceneNameList) :
             \E k \in i..Len(scene_blocks) :
                SceneNameList[i] = get_name(scene_blocks[k])

\* The part of C25 that holds: every scene has a non-empty name, and the
\* i-th scene is the record of the i-th scene block.
C25_NamedInBlockOrder ==
    Returned =>
        /\ Len(metadata.scenes) = Len(scene_blocks)
        /\ \A i \in 1..Len(scene_blocks) :
             /\ metadata.scenes[i].name # ""
             /\ metadata.scenes[i].name = get_name(scene_blocks[i])

\* Two scene blocks whose names differ in the file are both in the list
\* under one decoded name.
C25_SameDecodedName ==
    /\ Returned
    /\ Len(metadata.scenes) = 2
    /\ scene_blocks[1].id_name # scene_blocks[2].id_name
    /\ "id_name" \notin scene_blocks[1].absent \cup scene_blocks[2].absent
    /\ metadata.scenes[1].name = "SceneA"
    /\ metadata.scenes[2].name = "SceneA"

\* C26: when the metadata carries active_scene, it is the name of one of
\* the scenes of that metadata; a name from the window-manager chain that
\* matches no scene is left out, and a missing link of the chain gives no
\* active scene and does not fail the extraction.
C26_ActiveSceneIsAScene ==
    Returned =>
        /\ "active_scene" \in DOMAIN metadata =>
              \E i \in 1..Len(metadata.scenes) :
                 metadata.scenes[i].name = metadata.active_scene
        /\ wm_chain.kind # "scene" => "active_scene" \notin DOMAIN metadata

\* The part of C26 that holds: a chain with a missing or failing link gives
\* no active_scene, a complete chain gives the decoded name of the scene it
\* ends at, and parse_blend returns the scene list in both cases.
C26_ActiveSceneFromChain ==
    Returned =>
        /\ Len(metadata.scenes) = Len(scene_blocks)
        /\ wm_chain.kind # "scene" => "active_scene" \notin DOMAIN metadata
        /\ wm_chain.kind = "scene" =>
              /\ "active_scene" \in DOMAIN metadata
              /\ metadata.active_scene = get_name(wm_chain.scene)

\* The window shows a linked scene: active_scene names no scene of the
\* list.
C26_ActiveSceneNotListed ==
    /\ Returned
    /\ metadata.scenes # <<>>
    /\ "active_scene" \in DOMAIN metadata
    /\ metadata.active_scene = "Linked"
    /\ \A i \in 1..Len(metadata.scenes) : metadata.scenes[i].name # "Linked"


\* ------------------------------------------------------------------------
\* From parse_blend to the main window: the metadata is emitted, ingested
\* and planned
\* ------------------------------------------------------------------------

\* A scene dict of the metadata as the main window reads it: the layer
\* names are plain strings, and a key the dict lacks reads as the default
\* of scene.get(key, default).
SceneDict(scene_data) ==
    LET get(key, default) ==
            IF key \in DOMAIN scene_data THEN scene_data[key] ELSE default
        layers == get("view_layers", <<>>)
    IN  [ name |-> get("name", ""),
          frame_start |-> get("frame_start", 1),
          frame_end |-> get("frame_end", 250),
          frame_step |-> get("frame_step", 1),
          output_path |-> get("output_path", ""),
          output_format |-> get("output_format", ""),
          view_layers |-> [i \in 1..Len(layers) |-> StrLayer(layers[i])],
          parse_error |-> get("parse_error", ""),
          missing |-> SceneKeys \ DOMAIN scene_data ]

\* The scene blocks of the files that are followed into the main window.
IngestBlockInputs ==
    { SceneBlock(id, layers, 18, {}, raises) :
        id \in { <<"SC", "SceneA">>, <<"SC", "SceneB">> },
        layers \in { <<>>, << <<"L1">> >> },
        raises \in {"none", "sfra", "xsch"} }

\* InspectorThread.run has called parse_blend on the file.
IngestInit ==
    /\ InspIdle
    /\ UiIdle
    /\ SubIdle
    /\ BeIdle
    /\ FnIdle
    /\ \E n \in 0..MaxBlocks : scene_blocks \in [1..n -> IngestBlockInputs]
    /\ wm_chain \in { [kind |-> "no_wm"] }
    /\ PrsIdle!3 /\ PrsIdle!4
    /\ ppc = "loop"
    /\ CtlIdle

\* InspectorThread.run after parse_blend returned: the metadata is emitted
\* as it is, and the loop goes on to the next file.
EmitParsed ==
    /\ app = "running"
    /\ ppc = "returned"
    /\ ppc' = "emitted"
    /\ blend' = IF "error" \in DOMAIN metadata THEN blend
                ELSE [scenes |-> [i \in 1..Len(metadata.scenes) |->
                                     SceneDict(metadata.scenes[i])]]
    /\ UNCHANGED <<inspVars, subVars, beVars, fnVars, ctlVars, scene_blocks,
                   wm_chain, parsed_scenes, metadata, app, has_file_data,
                   file_data, current_filepath, render_tab, submit_pending,
                   job_fd, plan_status, job_blocks>>

\* _on_file_inspected with the emitted metadata: the error branch when the
\* dict has an "error" key, the BlendFileData otherwise.
OnParsedFileInspected ==
    /\ ppc = "emitted"
    /\ IF "error" \in DOMAIN metadata
       THEN /\ InspectionEvent
            /\ file_data' = [(IF has_file_data THEN file_data ELSE DefaultFileData)
                               EXCEPT !.error = metadata.error]
            /\ has_file_data' = TRUE
            /\ UNCHANGED <<inspVars, auxVars, app, blend, current_filepath,
                           render_tab, submit_pending, job_fd, plan_status,
                           job_blocks>>
       ELSE OnFileInspected

IngestNext ==
    \/ ParseScene
    \/ ReturnMetadata
    \/ EmitParsed
    \/ OnParsedFileInspected
    \/ OnFileSelected
    \/ OnSceneChanged
    \/ SubmitSelected
    \/ SubmitJob
    \/ OnSubmitDone
    \/ DismissWarning

SpecIngest == IngestInit /\ [][IngestNext]_vars

\* C22: the extraction of a file without scene blocks does not fail:
\* parse_blend returns metadata with an empty scene list, the thread emits
\* it as metadata, and _on_file_inspected makes a BlendFileData with the
\* default render fields and no error.
C22_NoSceneFile ==
    [][scene_blocks = <<>> =>
          /\ ReturnMetadata =>
                /\ DOMAIN metadata' = {"scenes"}
                /\ metadata'.scenes = <<>>
          /\ EmitParsed => blend' = [scenes |-> <<>>]
          /\ OnParsedFileInspected =>
                /\ app' = "running"
                /\ has_file_data'
                /\ file_data' = [DefaultFileData EXCEPT
                                    !.inspected = TRUE,
                                    !.frames_per_task = render_tab.fpt_spin]]_vars

\* A file without scene blocks was parsed, emitted and ingested.
C22_Witness ==
    /\ scene_blocks = <<>>
    /\ ppc = "emitted"
    /\ has_file_data
    /\ file_data.inspected
    /\ file_data.error = ""
    /\ file_data.scenes = <<>>
    /\ file_data.frame_start = 1
    /\ file_data.frame_end = 250

\* The scenes of the job's file that a block was made for.
BlockScenes(b) ==
    { job_fd.scenes[i] : i \in { k \in 1..Len(job_fd.scenes) :
                                    job_fd.scenes[k].name = b.scene } }

\* C24: no block is built and no job is submitted from a scene record
\* whose parse_error is set: ingestion and planning never treat such a
\* record as ready on their own.
C24_NoBlockFromParseError ==
    PlannerRan =>
        \A i \in 1..Len(job_blocks) :
            \A scene \in BlockScenes(job_blocks[i]) : scene.parse_error = ""

\* A job was handed to the farm with a block for a scene whose resolution
\* could not be read.
C24_ParseErrorSubmitted ==
    /\ plan_status = "submitted"
    /\ job_fd.selected_scene = ALL_SCENES
    /\ \E i \in 1..Len(job_blocks) :
          \E scene \in BlockScenes(job_blocks[i]) :
             /\ scene.parse_error # ""
             /\ "resolution_x" \in scene.missing

====
